---- MODULE Spec2Model ----
(***************************************************************************)
(* Model of the OpenSO2 flux retrieval code (openso2/gui_funcs.py).        *)
(*                                                                         *)
(*   SpecFilter   filter_scan applied to one scan                          *)
(*   SpecNearest  find_nearest_scan applied to one catalogue               *)
(*   Spec         get_local_scans + calculate_fluxes over a day's folder   *)
(*   SpecRerun    Spec, the worker being run again on the same folder      *)
(*   SpecLive     Spec over folders listed in any order, scan files        *)
(*                arriving during the run                                  *)
(*   SpecCatalogue  get_local_scans call by call, scan files arriving      *)
(*   SpecWorker   SyncWorker.run and PostAnalysisWorker.run                *)
(*   SpecScanner  main_loop of run_scanner.py from its scanning loop on    *)
(*   SpecParams   Parameters.update_values (ifit/parameters.py)            *)
(*                                                                         *)
(* Units.  SO2 columns are counted in units of 5e16 molec/cm2, so that the *)
(* default plume_scd = 1e17 is 2 and the default min_scd = -1e17 is -2.    *)
(* Intensities are counted in units chosen so that min_int = 1 and         *)
(* max_int = 3.  Timestamps are whole minutes after midnight and           *)
(* scan_pair_time is in minutes.  good_scan_lim = 0.2 is the pair <<1, 5>> *)
(* (numerator, denominator) and n > lim * m is evaluated as                *)
(* n * 5 > 1 * m.                                                          *)
(***************************************************************************)
EXTENDS Integers, Sequences, FiniteSets, TLC

VARIABLES
    f_scan,        \* SpecFilter: the scan handed to filter_scan
    f_sg,          \* SpecFilter: <<sg_window, sg_polyn>>
    f_out,         \* SpecFilter: what filter_scan returned, or Pending
    n_station,     \* SpecNearest: station_name
    n_time,        \* SpecNearest: scan_time
    n_fnames,      \* SpecNearest: scan_fnames
    n_times,       \* SpecNearest: scan_times
    n_out,         \* SpecNearest: what find_nearest_scan returned, or NotCalled
    disk,          \* the day's folder: per station, whether <name>/so2/ exists
                   \* and its files in os.listdir order
    scan_pair_flag,\* configuration: pairing enabled
    pc,            \* where the run is: "idle", "called", "station", "scan",
                   \* "returned", "raised"
    scans,         \* calculate_fluxes: the scans argument (the caller's all_scans)
    scan_fnames,   \* calculate_fluxes: file names of its own get_local_scans
    scan_times,    \* calculate_fluxes: timestamps of its own get_local_scans
    st,            \* calculate_fluxes: position of the station loop
    row_i,         \* calculate_fluxes: scans of the station handled so far
    flux_df,       \* calculate_fluxes: the table of the station in progress
    flux_results,  \* calculate_fluxes: the tables of the stations done
    calls,         \* per station and row, the calls the iteration made
    prev_results,  \* SpecRerun: what the previous calculate_fluxes returned
    arrived,       \* SpecLive, SpecCatalogue: scan files added since Init
    w_kind,        \* SpecWorker: "sync" (SyncWorker) or "post"
                   \* (PostAnalysisWorker)
    w_pc,          \* SpecWorker: where run() is
    w_new,         \* SpecWorker: SyncWorker's scans dictionary, per station
                   \* the number of so2 files the sync brought (Null: no entry)
    w_dir,         \* SpecWorker: per station, whether <fpath>/<name>/ exists
    w_k,           \* SpecWorker: position of the export loop
    w_files,       \* SpecWorker: the flux files on disk, by <<station, suffix>>
    w_signals,     \* SpecWorker: the signals emitted so far
    w_results,     \* SpecWorker: what calculate_fluxes returned
    w_exc,         \* SpecWorker: the exception _run raised, if any
    w_st,          \* SpecWorker: position of SyncWorker's loop over stations
    w_flag,        \* SpecWorker: per station, station.sync_flag
    w_mode,        \* SpecWorker: sync_mode
    w_pulled,      \* SpecWorker: per station, what the sync loop did for it
    m_pc,          \* SpecScanner: where main_loop is
    processes,     \* SpecScanner: the list of analysis processes
    alive,         \* SpecScanner: the analysis processes that are running
    scan_number,   \* SpecScanner: scanner.scan_number
    status,        \* SpecScanner: the content of Station/status.txt
    scanner_state, \* SpecScanner: "engaged" or "released"
    acquired,      \* SpecScanner: the number of scans acquired so far
    started,       \* SpecScanner: scan numbers whose analysis was started
    not_analysed,  \* SpecScanner: scan numbers logged as not analysed
    m_join,        \* SpecScanner: position of the join loop
    p_params,      \* SpecParams: the Parameters, in insertion order
    p_new,         \* SpecParams: the new_values argument
    p_before,      \* SpecParams: the Parameters before update_values
    p_pc           \* SpecParams: "ready", "updated" or "raised"

filterVars == <<f_scan, f_sg, f_out>>

nearestVars == <<n_station, n_time, n_fnames, n_times, n_out>>

fluxVars == <<disk, scan_pair_flag, pc, scans, scan_fnames, scan_times, st, row_i,
              flux_df, flux_results, calls>>

syncVars == <<w_st, w_flag, w_mode, w_pulled>>

workerVars == <<w_kind, w_pc, w_new, w_dir, w_k, w_files, w_signals,
                w_results, w_exc, w_st, w_flag, w_mode, w_pulled>>

scannerVars == <<m_pc, processes, alive, scan_number, status, scanner_state,
                 acquired, started, not_analysed, m_join>>

paramVars == <<p_params, p_new, p_before, p_pc>>

auxVars == <<prev_results, arrived, w_kind, w_pc, w_new, w_dir, w_k, w_files,
             w_signals, w_results, w_exc, w_st, w_flag, w_mode, w_pulled,
             m_pc, processes, alive, scan_number, status, scanner_state,
             acquired, started, not_analysed, m_join, p_params, p_new,
             p_before, p_pc>>

vars == <<f_scan, f_sg, f_out, n_station, n_time, n_fnames, n_times, n_out,
          disk, scan_pair_flag, pc, scans, scan_fnames, scan_times, st, row_i,
          flux_df, flux_results, calls, prev_results, arrived, w_kind, w_pc,
          w_new, w_dir, w_k, w_files, w_signals, w_results, w_exc, w_st,
          w_flag, w_mode, w_pulled, m_pc, processes, alive, scan_number,
          status, scanner_state, acquired, started, not_analysed, m_join,
          p_params, p_new, p_before, p_pc>>

(***************************************************************************)
(* Values                                                                  *)
(***************************************************************************)
\* Python None / the NaN of an unfilled DataFrame cell: the empty tuple.
\* A present value v is the one-element tuple <<v>>.
Null == <<>>

Some(v) == <<v>>

\* prev_results before any run has returned
NoPrevious == <<"no previous run">>

Max(a, b) == IF a > b THEN a ELSE b

Min(a, b) == IF a < b THEN a ELSE b

Abs(a) == IF a < 0 THEN 0 - a ELSE a

(***************************************************************************)
(* Configuration (defaults of calculate_fluxes, scaled as described above) *)
(***************************************************************************)
min_scd == 0 - 2

max_scd == 6

min_int == 1

max_int == 3

plume_scd == 2

good_scan_lim == <<1, 5>>

sg_window == 11

sg_polyn == 3

\* the literal 10 of "if nplume < 10"
MinPlume == 10

(***************************************************************************)
(* filter_scan                                                             *)
(***************************************************************************)
\* Python's bool as an integer, as numpy compares it with a number
BoolInt(b) == IF b THEN 1 ELSE 0

\* the indices of 1..n for which keep[i] holds, in increasing order
RECURSIVE WhereFrom(_, _, _)
WhereFrom(keep, i, n) ==
    IF i > n THEN <<>>
    ELSE IF keep[i] THEN <<i>> \o WhereFrom(keep, i + 1, n)
    ELSE WhereFrom(keep, i + 1, n)

Where(keep) == WhereFrom(keep, 1, Len(keep))

\* np.row_stack([...]).any(axis=0): the reject mask
RejectMask(scan_da, minscd, maxscd, minint, maxint) ==
    [i \in 1..Len(scan_da) |->
        \/ scan_da[i].SO2 < minscd
        \/ scan_da[i].SO2 > maxscd
        \/ scan_da[i].int_av < minint
        \/ scan_da[i].int_av > maxint]

\* np.all([...], axis=0): the keep mask
KeepMask(scan_da, minscd, maxscd, minint, maxint) ==
    [i \in 1..Len(scan_da) |->
        /\ scan_da[i].SO2 > minscd
        /\ scan_da[i].SO2 < maxscd
        /\ scan_da[i].int_av > minint
        /\ scan_da[i].int_av < maxint]

LowSignalAtLimit(mask, lim) ==
    Len(Where(mask)) * lim[2] >= lim[1] * Len(mask)

\* len(np.where(mask)[0]) > good_scan_lim*len(scan_da['SO2'])
LowSignal(mask, lim) ==
    Len(Where(mask)) * lim[2] > lim[1] * Len(mask)

\* nplume = sum(filter_idx < plume_scd): the comparison is made on the
\* boolean keep mask itself
NPlume(filter_idx, plumescd) ==
    Len(Where([i \in 1..Len(filter_idx) |->
                  BoolInt(filter_idx[i]) < plumescd]))

\* scipy.signal.savgol_coeffs(window, polyn) times its denominator (429 for
\* the default (11, 3), 1 for the identity (1, 0)), for the two settings
\* the model uses
SavgolCoeffs(window, polyn) ==
    IF window = 11 /\ polyn = 3
    THEN <<0 - 36, 9, 44, 69, 84, 89, 84, 69, 44, 9, 0 - 36>>
    ELSE <<1>>

\* savgol_filter(y, window, polyn, mode='nearest') times that denominator: the
\* window is correlated with y, y being extended beyond both ends by its
\* edge values
RECURSIVE SavgolSum(_, _, _, _)
SavgolSum(y, c, i, j) ==
    IF j > Len(c) THEN 0
    ELSE c[j] * y[Max(1, Min(Len(y), i + j - 1 - (Len(c) \div 2)))]
         + SavgolSum(y, c, i, j + 1)

savgol_filter(y, window, polyn) ==
    [i \in 1..Len(y) |-> SavgolSum(y, SavgolCoeffs(window, polyn), i, 1)]

\* ndarray.argmax(): the first index holding the maximum
ArgMax(s) ==
    CHOOSE i \in 1..Len(s) :
        /\ \A j \in 1..Len(s) : s[j] <= s[i]
        /\ \A j \in 1..(i - 1) : s[j] < s[i]

PeakAngleUnmasked(scan_da, kept, so2_filtered) ==
    scan_da[ArgMax(so2_filtered)].angle

\* x = scan_da['angle'].data[filter_idx]; peak_angle = x[so2_filtered.argmax()]
PeakAngle(scan_da, kept, so2_filtered) ==
    scan_da[kept[ArgMax(so2_filtered)]].angle

\* What filter_scan returns: (scan_da, peak_angle, msg).  da is Null or
\* Some(scan_da), scan_da then carrying the keep mask in "filter".  When
\* no sample is kept, smoothing and argmax are applied to an empty array
\* and the call raises instead of returning: raised = TRUE.
FilterResult(da, peak, msg, filter, raised) ==
    [da |-> da, peak |-> peak, msg |-> msg, filter |-> filter,
     raised |-> raised]

filter_scan(scan_da, minscd, maxscd, minint, maxint, plumescd, lim, window, polyn) ==
    LET mask == RejectMask(scan_da, minscd, maxscd, minint, maxint)
        filter_idx == KeepMask(scan_da, minscd, maxscd, minint, maxint)
        kept == Where(filter_idx)
        y == [j \in 1..Len(kept) |-> scan_da[kept[j]].SO2]
        so2_filtered == savgol_filter(y, window, polyn)
    IN  IF LowSignal(mask, lim)
        THEN FilterResult(Null, Null, "Not enough good spectra", <<>>, FALSE)
        ELSE IF NPlume(filter_idx, plumescd) < MinPlume
        THEN FilterResult(Null, Null, "Not enough plume spectra", <<>>, FALSE)
        ELSE IF Len(y) = 0
        THEN FilterResult(Null, Null, "raised", <<>>, TRUE)
        ELSE FilterResult(Some(scan_da),
                          Some(PeakAngle(scan_da, kept, so2_filtered)),
                          "Scan analysed", filter_idx, FALSE)

(***************************************************************************)
(* Stations, file names and paths                                          *)
(***************************************************************************)
\* the keys of the stations dictionary, in its iteration order
StationNames == <<"A", "B", "C">>

Stations == {StationNames[k] : k \in 1..Len(StationNames)}

\* the name of a scan file whose first 14 characters spell the minute t
FileName(t) == <<"results.nc", t>>

\* datetime.strptime(f[:14], '%Y%m%d_%H%M%S')
strptime(f) == f[2]

\* f'{fpath}/{name}/so2/{f}'
ScanPath(name, f) == <<name, "so2", f>>

\* the Python string 'None', as a file name and as a path
NoneText == <<"None">>

NonePath == <<NoneText>>

\* os.path.split(path)[1]
os_path_tail(path) == path[Len(path)]

(***************************************************************************)
(* find_nearest_scan                                                       *)
(***************************************************************************)
\* np.argmin: the first index holding the minimum
ArgMin(s) ==
    CHOOSE i \in 1..Len(s) :
        /\ \A j \in 1..Len(s) : s[i] <= s[j]
        /\ \A j \in 1..(i - 1) : s[i] < s[j]

RECURSIVE NearestPerStationOwnToo(_, _, _, _, _)
NearestPerStationOwnToo(k, station_name, scan_time, cat_fnames, cat_times) ==
    IF k > Len(StationNames) THEN <<>>
    ELSE
        LET name == StationNames[k]
            fnames == cat_fnames[name]
            delta_times == [i \in 1..Len(cat_times[name]) |->
                               Abs(cat_times[name][i] - scan_time)]
            min_idx == ArgMin(delta_times)
            rest == NearestPerStationOwnToo(k + 1, station_name, scan_time,
                                            cat_fnames, cat_times)
        IN  IF Len(fnames) = 0 THEN rest
            ELSE <<[ts |-> cat_times[name][min_idx],
                    fname |-> fnames[min_idx],
                    station |-> name]>> \o rest

\* the loop over scan_fnames.items() from the k-th station on: the nearest
\* scan of every other station that has scans, in iteration order
RECURSIVE NearestPerStation(_, _, _, _, _)
NearestPerStation(k, station_name, scan_time, cat_fnames, cat_times) ==
    IF k > Len(StationNames) THEN <<>>
    ELSE
        LET name == StationNames[k]
            fnames == cat_fnames[name]
            delta_times == [i \in 1..Len(cat_times[name]) |->
                               Abs(cat_times[name][i] - scan_time)]
            min_idx == ArgMin(delta_times)
            rest == NearestPerStation(k + 1, station_name, scan_time,
                                      cat_fnames, cat_times)
        IN  IF name = station_name \/ Len(fnames) = 0 THEN rest
            ELSE <<[ts |-> cat_times[name][min_idx],
                    fname |-> fnames[min_idx],
                    station |-> name]>> \o rest

\* idx = np.argmin(nearest_cat_times)
NearestOfNearest(nearest, scan_time) ==
    ArgMin([i \in 1..Len(nearest) |-> nearest[i].ts])

\* (nearest_fname, nearest_timestamp, nearest_station), each Null or Some
find_nearest_scan(station_name, scan_time, cat_fnames, cat_times) ==
    LET nearest == NearestPerStation(1, station_name, scan_time,
                                     cat_fnames, cat_times)
        idx == NearestOfNearest(nearest, scan_time)
    IN  IF Len(nearest) # 0
        THEN [fname |-> Some(nearest[idx].fname),
              ts |-> Some(nearest[idx].ts),
              station |-> Some(nearest[idx].station)]
        ELSE [fname |-> Null, ts |-> Null, station |-> Null]

\* n_out before the call
NotCalled == [fname |-> Null, ts |-> Null, station |-> Some("not called")]

(***************************************************************************)
(* Scans the model draws from                                              *)
(***************************************************************************)
MaxSamples == 12

MaxBlock == 3

\* viewing angle of the i-th sample of a sweep
AngleOf(i) == 15 * (i - 1) - 90

Sample(i, so2, int) == [angle |-> AngleOf(i), SO2 |-> so2, int_av |-> int]

\* <<SO2, int_av>> of the samples a scan may contain
LowOk == <<1, 2>>

HighOk == <<4, 2>>

SampleKinds ==
    { <<min_scd - 1, 2>>, <<min_scd, 2>>, <<max_scd, 2>>, <<max_scd + 1, 2>>,
      <<1, min_int - 1>>, <<1, min_int>>, <<1, max_int>>, <<1, max_int + 1>>,
      HighOk }

\* a sweep of n samples of kind base, except a block of k samples of kind
\* blk starting at p and one sample of SO2 value v at q (q = 0: none)
MkScan(n, base, k, p, blk, q, v) ==
    [i \in 1..n |->
        IF i = q THEN Sample(i, v, 2)
        ELSE IF i >= p /\ i < p + k THEN Sample(i, blk[1], blk[2])
        ELSE Sample(i, base[1], base[2])]

FilterInputs ==
    { MkScan(n, base, k, p, blk, q, v) :
        n \in 0..MaxSamples, base \in {LowOk, <<min_scd, 2>>},
        k \in 0..MaxBlock, p \in {1, 4}, blk \in SampleKinds,
        q \in {0, 2, 5, 10}, v \in {3, 5, max_scd + 1} }

(***************************************************************************)
(* get_local_scans                                                         *)
(***************************************************************************)
\* os.listdir(f'{fpath}/{name}/so2/'): the names in the folder, in the
\* order the folder gives them
listdir(d, name) == [k \in 1..Len(d[name].files) |-> d[name].files[k].f]

get_local_scans_uncaught(d) ==
    [fnames |-> [name \in Stations |->
                    [k \in 1..Len(listdir(d, name)) |->
                        ScanPath(name, listdir(d, name)[k])]],
     times |-> [name \in Stations |->
                    [k \in 1..Len(listdir(d, name)) |->
                        strptime(listdir(d, name)[k])]],
     raised |-> \E name \in Stations : ~d[name].exists]

\* (scan_fnames, scan_times) for all stations; a station whose folder does
\* not exist (FileNotFoundError) gets two empty lists.  raised: whether
\* the call raised instead of returning.
get_local_scans(d) ==
    [fnames |-> [name \in Stations |->
                    IF d[name].exists
                    THEN [k \in 1..Len(listdir(d, name)) |->
                             ScanPath(name, listdir(d, name)[k])]
                    ELSE <<>>],
     times |-> [name \in Stations |->
                    IF d[name].exists
                    THEN [k \in 1..Len(listdir(d, name)) |->
                             strptime(listdir(d, name)[k])]
                    ELSE <<>>],
     raised |-> FALSE]

(***************************************************************************)
(* calculate_fluxes                                                        *)
(***************************************************************************)
default_alt == 1000

default_az == 270

wind_speed == 10

\* minutes
scan_pair_time == 1

\* the scans a file of the model can hold: an analysable sweep of 11
\* samples peaking at its 5th sample, and a sweep of 4 samples of which
\* one (25%) is saturated
ScanLib ==
    << MkScan(11, LowOk, 0, 1, LowOk, 5, 5),
       MkScan(4, LowOk, 1, 1, <<1, max_int + 1>>, 0, 3) >>

\* filter_scan, with the configuration of the run, on each scan of ScanLib
ScanLibFiltered ==
    [k \in 1..Len(ScanLib) |->
        filter_scan(ScanLib[k], min_scd, max_scd, min_int, max_int,
                    plume_scd, good_scan_lim, sg_window, sg_polyn)]

\* which scan of ScanLib the file at path holds
FileData(d, path) ==
    LET files == d[path[1]].files
        k == CHOOSE k \in 1..Len(files) : files[k].f = os_path_tail(path)
    IN  files[k].data

\* stations[name].name
StationName(name) == name

\* openso2.plume.calc_plume_altitude(station, alt_station, peak, alt_peak,
\* vent_loc, default_alt): (plume_alt, plume_az), kept as terms over the
\* two stations and the two peak angles
calc_plume_altitude(station, alt_station, peak, alt_peak) ==
    [alt |-> <<"plume_alt", station, alt_station, peak, alt_peak>>,
     az |-> <<"plume_az", station, alt_station, peak, alt_peak>>]

\* openso2.plume.calc_scan_flux(angles, scan_so2, station, vent_location,
\* windspeed, plume_altitude, plume_azimuth): (flux_amt, flux_err), kept as
\* terms over the station, the kept angles and the plume geometry
calc_scan_flux(angles, station, plume_alt, plume_az) ==
    [amt |-> <<"flux_amt", station, angles, plume_alt, plume_az>>,
     err |-> <<"flux_err", station, angles, plume_alt, plume_az>>]

Row(time, scan_file, pair_station, pair_file, flux, flux_err, plume_alt, plume_dir, wind) ==
    [time |-> time, scan_file |-> scan_file, pair_station |-> pair_station,
     pair_file |-> pair_file, flux |-> flux, flux_err |-> flux_err,
     plume_alt |-> plume_alt, plume_dir |-> plume_dir, wind_speed |-> wind]

\* a row of the freshly made DataFrame: every cell NaN
EmptyRow == Row(Null, Null, Null, Null, Null, Null, Null, Null, Null)

RejectedRowUnfilled(scan_time, scan_fname) == EmptyRow

RejectedRowWithWind(scan_time, scan_fname) ==
    Row(Some(scan_time), Some(os_path_tail(scan_fname)), Null, Null, Null,
        Null, Null, Null, Some(wind_speed))

\* lines 313-314: the row of a scan that filter_scan rejected
RejectedRow(scan_time, scan_fname) ==
    Row(Some(scan_time), Some(os_path_tail(scan_fname)), Null, Null, Null,
        Null, Null, Null, Null)

\* one entry of the call log
Call(op, path) == [op |-> op, path |-> path]

\* the triangulated altitudes in the tables of the previous run
LastKnownAltitudes ==
    IF prev_results = NoPrevious THEN {}
    ELSE UNION { { prev_results[name][k].plume_alt :
                     k \in { j \in 1..Len(prev_results[name]) :
                               prev_results[name][j].pair_station # Null } } :
                 name \in Stations }

DefaultGeometryLastKnown ==
    [near_fname |-> NonePath, alt_station_name |-> Null,
     plume_alt |-> IF LastKnownAltitudes = {} THEN Some(default_alt)
                   ELSE CHOOSE a \in LastKnownAltitudes : TRUE,
     plume_az |-> Some(default_az),
     calls |-> <<>>, raised |-> FALSE]

\* near_fname = 'None'; alt_station_name = None; default altitude and azimuth
DefaultGeometry ==
    [near_fname |-> NonePath, alt_station_name |-> Null,
     plume_alt |-> Some(default_alt), plume_az |-> Some(default_az),
     calls |-> <<>>, raised |-> FALSE]

\* time_diff < delta_time, time_diff = scan_time - near_ts
InPairWindow(scan_time, near_ts, pair_time) ==
    scan_time - near_ts < pair_time

\* (None, None, None)
NoNearest == [fname |-> Null, ts |-> Null, station |-> Null]

\* lines 318-324: the nearest scan of the other stations, if pairing is on
PairSearch(name, scan_time, pair_flag, fnames, times) ==
    IF pair_flag
    THEN find_nearest_scan(name, scan_time, fnames, times)
    ELSE NoNearest

GeometryRetry(name, scan_time, peak, pair_flag, near, alt, pairReadable) ==
    LET search == IF pair_flag
                  THEN <<Call("find_nearest_scan", NonePath)>>
                  ELSE <<>>
    IN  IF near.fname = Null
        THEN [DefaultGeometry EXCEPT !.calls = search]
        ELSE IF InPairWindow(scan_time, near.ts[1], scan_pair_time)
                /\ pair_flag
        THEN LET near_fname == near.fname[1]
                 alt_name == near.station[1]
                 read == search \o <<Call("read_csv", near_fname)>>
                 filt == read \o <<Call("filter_scan", near_fname)>>
                 tri == calc_plume_altitude(name, alt_name, peak[1],
                                            alt.peak[1])
             IN  IF ~pairReadable
                 THEN [DefaultGeometry EXCEPT !.calls = read,
                                              !.raised = TRUE]
                 ELSE IF alt.raised
                 THEN [DefaultGeometry EXCEPT !.calls = filt,
                                              !.raised = TRUE]
                 ELSE IF alt.da = Null
                 THEN [DefaultGeometry EXCEPT
                          !.calls = filt \o search
                                    \o <<Call("read_csv", near_fname),
                                         Call("filter_scan", near_fname)>>]
                 ELSE [near_fname |-> near_fname,
                       alt_station_name |-> Some(StationName(alt_name)),
                       plume_alt |-> tri.alt, plume_az |-> tri.az,
                       calls |-> filt \o <<Call("calc_plume_altitude",
                                                near_fname)>>,
                       raised |-> FALSE]
        ELSE [DefaultGeometry EXCEPT !.calls = search]

\* lines 326-366: the plume geometry of an analysable scan.  near is what
\* PairSearch gave, alt what filter_scan gives on the candidate's data,
\* pairReadable whether pd.read_csv can read the candidate file.
Geometry(name, scan_time, peak, pair_flag, near, alt, pairReadable) ==
    LET search == IF pair_flag
                  THEN <<Call("find_nearest_scan", NonePath)>>
                  ELSE <<>>
    IN  IF near.fname = Null
        THEN [DefaultGeometry EXCEPT !.calls = search]
        ELSE IF InPairWindow(scan_time, near.ts[1], scan_pair_time)
                /\ pair_flag
        THEN LET near_fname == near.fname[1]
                 alt_name == near.station[1]
                 read == search \o <<Call("read_csv", near_fname)>>
                 filt == read \o <<Call("filter_scan", near_fname)>>
                 tri == calc_plume_altitude(name, alt_name, peak[1],
                                            alt.peak[1])
             IN  IF ~pairReadable
                 THEN [DefaultGeometry EXCEPT !.calls = read,
                                              !.raised = TRUE]
                 ELSE IF alt.raised
                 THEN [DefaultGeometry EXCEPT !.calls = filt,
                                              !.raised = TRUE]
                 ELSE IF alt.da = Null
                 THEN [DefaultGeometry EXCEPT !.calls = filt]
                 ELSE [near_fname |-> near_fname,
                       alt_station_name |-> Some(StationName(alt_name)),
                       plume_alt |-> tri.alt, plume_az |-> tri.az,
                       calls |-> filt \o <<Call("calc_plume_altitude",
                                                near_fname)>>,
                       raised |-> FALSE]
        ELSE [DefaultGeometry EXCEPT !.calls = search]

\* lines 368-381: the kept angles handed to calc_scan_flux
KeptAngles(own) ==
    IF own.da = Null THEN <<>>
    ELSE [j \in 1..Len(Where(own.filter)) |->
             own.da[1][Where(own.filter)[j]].angle]

\* lines 296-387: one iteration of the loop over scans[name].  own is what
\* filter_scan gives on the scan's data, geo the geometry of the scan,
\* readable whether xr.open_dataset can read the scan.  The result is the
\* row written to flux_df, the calls made, and whether the iteration
\* raised instead of completing.
Iteration(name, scan_fname, own, geo, flux, readable) ==
    LET scan_time == strptime(os_path_tail(scan_fname))
        opened == <<Call("open_dataset", scan_fname)>>
        filt == opened \o <<Call("filter_scan", scan_fname)>>
    IN  IF ~readable
        THEN [row |-> EmptyRow, calls |-> opened, raised |-> TRUE]
        ELSE IF own.raised
        THEN [row |-> EmptyRow, calls |-> filt, raised |-> TRUE]
        ELSE IF own.da = Null
        THEN [row |-> RejectedRow(scan_time, scan_fname),
              calls |-> filt, raised |-> FALSE]
        ELSE IF geo.raised
        THEN [row |-> EmptyRow, calls |-> filt \o geo.calls,
              raised |-> TRUE]
        ELSE [row |-> Row(Some(scan_time), Some(os_path_tail(scan_fname)),
                          geo.alt_station_name,
                          Some(os_path_tail(geo.near_fname)),
                          flux.amt, flux.err, geo.plume_alt, geo.plume_az,
                          Some(wind_speed)),
              calls |-> filt \o geo.calls
                        \o <<Call("calc_scan_flux", scan_fname)>>,
              raised |-> FALSE]

(***************************************************************************)
(* Spec: a worker catalogues the day's folder and calls calculate_fluxes   *)
(***************************************************************************)
MaxTime == 2

MaxFiles == 3

\* the minutes of a set, in ascending order
RECURSIVE Ascending(_)
Ascending(T) ==
    IF T = {} THEN <<>>
    ELSE LET lo == CHOOSE t \in T : \A u \in T : t <= u
         IN  <<lo>> \o Ascending(T \ {lo})

\* the ways to put c scan files into one station's so2 folder: c distinct
\* minutes, listed in ascending order, each file holding one of the scans
\* of ScanLib; an empty folder may also be missing altogether
StationFolders(c) ==
    { [exists |-> ex \/ c > 0,
       files |-> [k \in 1..c |->
                    [f |-> FileName(Ascending(T)[k]), data |-> data[k]]]] :
        ex \in BOOLEAN,
        T \in { U \in SUBSET (0..MaxTime) : Cardinality(U) = c },
        data \in [1..c -> 1..Len(ScanLib)] }

\* how many files each station has: at most MaxFiles in all
FileCounts ==
    { cnt \in [Stations -> 0..MaxFiles] :
        cnt[StationNames[1]] + cnt[StationNames[2]] + cnt[StationNames[3]]
            <= MaxFiles }

\* no earlier run, no file added, no worker running
WorkerIdle ==
    /\ w_kind = "post"
    /\ w_pc = "off"
    /\ w_new = [name \in Stations |-> Null]
    /\ w_dir = [name \in Stations |-> TRUE]
    /\ w_k = 0
    /\ w_files = {}
    /\ w_signals = <<>>
    /\ w_results = Null
    /\ w_exc = Null
    /\ w_st = 0
    /\ w_flag = [name \in Stations |-> FALSE]
    /\ w_mode = "both"
    /\ w_pulled = [name \in Stations |-> {}]

\* main_loop not running
ScannerIdle ==
    /\ m_pc = "off"
    /\ processes = <<>>
    /\ alive = {}
    /\ scan_number = 0
    /\ status = "Idle"
    /\ scanner_state = "engaged"
    /\ acquired = 0
    /\ started = {}
    /\ not_analysed = {}
    /\ m_join = 0

\* no Parameters object in use
ParamsIdle ==
    /\ p_params = <<>>
    /\ p_new = <<>>
    /\ p_before = <<>>
    /\ p_pc = "off"

AuxIdle ==
    /\ prev_results = NoPrevious
    /\ arrived = 0
    /\ WorkerIdle
    /\ ScannerIdle
    /\ ParamsIdle

FluxIdle ==
    /\ disk = [name \in Stations |-> [exists |-> FALSE, files |-> <<>>]]
    /\ scan_pair_flag = FALSE
    /\ pc = "off"
    /\ scans = [name \in Stations |-> <<>>]
    /\ scan_fnames = [name \in Stations |-> <<>>]
    /\ scan_times = [name \in Stations |-> <<>>]
    /\ st = 0
    /\ row_i = 0
    /\ flux_df = <<>>
    /\ flux_results = [name \in Stations |-> <<>>]
    /\ calls = [name \in Stations |-> <<>>]

(***************************************************************************)
(* SpecFilter: filter_scan on one scan                                     *)
(***************************************************************************)
Pending == FilterResult(Null, Null, "pending", <<>>, FALSE)

FilterIdle ==
    /\ f_scan = <<>>
    /\ f_sg = <<sg_window, sg_polyn>>
    /\ f_out = Pending

NearestIdle ==
    /\ n_station = StationNames[1]
    /\ n_time = 0
    /\ n_fnames = [name \in Stations |-> <<>>]
    /\ n_times = [name \in Stations |-> <<>>]
    /\ n_out = NotCalled

InitFilter ==
    /\ f_scan \in FilterInputs
    /\ f_sg \in {<<1, 0>>, <<sg_window, sg_polyn>>}
    /\ f_out = Pending
    /\ NearestIdle
    /\ FluxIdle
    /\ AuxIdle

FilterScan ==
    /\ f_out = Pending
    /\ f_out' = filter_scan(f_scan, min_scd, max_scd, min_int, max_int,
                            plume_scd, good_scan_lim, f_sg[1], f_sg[2])
    /\ UNCHANGED <<f_scan, f_sg>>
    /\ UNCHANGED nearestVars
    /\ UNCHANGED <<fluxVars, auxVars>>

NextFilter == FilterScan

SpecFilter == InitFilter /\ [][NextFilter]_vars

(***************************************************************************)
(* SpecNearest: find_nearest_scan on one catalogue                         *)
(***************************************************************************)
NearMaxTime == 3

NearMaxFiles == 3

\* the timestamp lists of a station with c scans: c distinct minutes in
\* any order
TimeLists(c) ==
    { s \in [1..c -> 0..NearMaxTime] :
        \A a, b \in 1..c : a # b => s[a] # s[b] }

\* how many scans each station has: at most NearMaxFiles in all
NearCounts ==
    { cnt \in [Stations -> 0..NearMaxFiles] :
        cnt[StationNames[1]] + cnt[StationNames[2]] + cnt[StationNames[3]]
            <= NearMaxFiles }

InitNearest ==
    /\ n_station \in Stations
    /\ n_time \in 0..NearMaxTime
    /\ \E cnt \in NearCounts :
         \E a \in TimeLists(cnt[StationNames[1]]),
            b \in TimeLists(cnt[StationNames[2]]),
            c \in TimeLists(cnt[StationNames[3]]) :
             n_times = [name \in Stations |->
                           IF name = StationNames[1] THEN a
                           ELSE IF name = StationNames[2] THEN b ELSE c]
    /\ n_fnames = [name \in Stations |->
                      [k \in 1..Len(n_times[name]) |->
                          ScanPath(name, FileName(n_times[name][k]))]]
    /\ n_out = NotCalled
    /\ FilterIdle
    /\ FluxIdle
    /\ AuxIdle

FindNearest ==
    /\ n_out = NotCalled
    /\ n_out' = find_nearest_scan(n_station, n_time, n_fnames, n_times)
    /\ UNCHANGED <<n_station, n_time, n_fnames, n_times>>
    /\ UNCHANGED filterVars
    /\ UNCHANGED <<fluxVars, auxVars>>

NextNearest == FindNearest

SpecNearest == InitNearest /\ [][NextNearest]_vars

(***************************************************************************)
(* Spec: actions                                                           *)
(***************************************************************************)
Init ==
    /\ \E cnt \in FileCounts :
         \E a \in StationFolders(cnt[StationNames[1]]),
            b \in StationFolders(cnt[StationNames[2]]),
            c \in StationFolders(cnt[StationNames[3]]) :
             disk = [name \in Stations |->
                        IF name = StationNames[1] THEN a
                        ELSE IF name = StationNames[2] THEN b ELSE c]
    /\ scan_pair_flag \in BOOLEAN
    /\ pc = "idle"
    /\ scans = [name \in Stations |-> <<>>]
    /\ scan_fnames = [name \in Stations |-> <<>>]
    /\ scan_times = [name \in Stations |-> <<>>]
    /\ st = 0
    /\ row_i = 0
    /\ flux_df = <<>>
    /\ flux_results = [name \in Stations |-> <<>>]
    /\ calls = [name \in Stations |-> <<>>]
    /\ FilterIdle
    /\ NearestIdle
    /\ AuxIdle

\* SyncWorker._run line 168, PostAnalysisWorker._run line 242:
\* all_scans, scan_times = get_local_scans(self.stations, fpath)
WorkerCatalogue ==
    /\ pc = "idle"
    /\ \E got \in {get_local_scans(disk)} :
         IF got.raised
         THEN pc' = "raised" /\ UNCHANGED scans
         ELSE pc' = "called" /\ scans' = got.fnames
    /\ UNCHANGED <<disk, scan_pair_flag, scan_fnames, scan_times, st, row_i,
                   flux_df, flux_results, calls>>
    /\ UNCHANGED <<filterVars, nearestVars, auxVars>>

\* calculate_fluxes lines 280-283: its own catalogue and an empty result
Catalogue ==
    /\ pc = "called"
    /\ \E got \in {get_local_scans(disk)} :
         IF got.raised
         THEN pc' = "raised" /\ UNCHANGED <<scan_fnames, scan_times, st>>
         ELSE /\ pc' = "station"
              /\ scan_fnames' = got.fnames
              /\ scan_times' = got.times
              /\ st' = 1
    /\ flux_results' = [name \in Stations |-> <<>>]
    /\ UNCHANGED <<disk, scan_pair_flag, scans, row_i, flux_df, calls>>
    /\ UNCHANGED <<filterVars, nearestVars, auxVars>>

\* lines 286-294: the next station and its table of len(scans[name]) rows
BeginStation ==
    /\ pc = "station"
    /\ st <= Len(StationNames)
    /\ flux_df' = [k \in 1..Len(scans[StationNames[st]]) |-> EmptyRow]
    /\ row_i' = 0
    /\ pc' = "scan"
    /\ UNCHANGED <<disk, scan_pair_flag, scans, scan_fnames, scan_times, st,
                   flux_results, calls>>
    /\ UNCHANGED <<filterVars, nearestVars, auxVars>>

\* lines 296-387: one scan of the station.  The values of the iteration
\* are computed in the order of the code: the filtered scan, the nearest
\* scan, the filtered candidate, the geometry, the flux, the row.
ProcessScan ==
    /\ pc = "scan"
    /\ row_i < Len(scans[StationNames[st]])
    /\ \E readable, pairReadable \in BOOLEAN :
       \E name \in {StationNames[st]} :
       \E scan_fname \in {scans[name][row_i + 1]} :
       \E own \in {ScanLibFiltered[FileData(disk, scan_fname)]} :
       \E near \in {PairSearch(name, strptime(os_path_tail(scan_fname)),
                               scan_pair_flag, scan_fnames, scan_times)} :
       \E alt \in {IF near.fname = Null THEN Pending
                   ELSE ScanLibFiltered[FileData(disk, near.fname[1])]} :
       \E geo \in {IF own.da = Null THEN DefaultGeometry
                   ELSE Geometry(name, strptime(os_path_tail(scan_fname)),
                                 own.peak, scan_pair_flag, near, alt,
                                 pairReadable)} :
       \E flux \in {calc_scan_flux(KeptAngles(own), name, geo.plume_alt,
                                   geo.plume_az)} :
       \E it \in {Iteration(name, scan_fname, own, geo, flux, readable)} :
             /\ calls' = [calls EXCEPT ![name] = Append(@, it.calls)]
             /\ IF it.raised
                THEN /\ pc' = "raised"
                     /\ UNCHANGED <<flux_df, row_i>>
                ELSE /\ flux_df' = [flux_df EXCEPT ![row_i + 1] = it.row]
                     /\ row_i' = row_i + 1
                     /\ pc' = "scan"
    /\ UNCHANGED <<disk, scan_pair_flag, scans, scan_fnames, scan_times, st,
                   flux_results>>
    /\ UNCHANGED <<filterVars, nearestVars, auxVars>>

\* line 389: flux_results[name] = flux_df
EndStation ==
    /\ pc = "scan"
    /\ row_i = Len(scans[StationNames[st]])
    /\ flux_results' = [flux_results EXCEPT ![StationNames[st]] = flux_df]
    /\ st' = st + 1
    /\ pc' = "station"
    /\ UNCHANGED <<disk, scan_pair_flag, scans, scan_fnames, scan_times, row_i,
                   flux_df, calls>>
    /\ UNCHANGED <<filterVars, nearestVars, auxVars>>

\* line 391: return flux_results
Return ==
    /\ pc = "station"
    /\ st > Len(StationNames)
    /\ pc' = "returned"
    /\ UNCHANGED <<disk, scan_pair_flag, scans, scan_fnames, scan_times, st,
                   row_i, flux_df, flux_results, calls>>
    /\ UNCHANGED <<filterVars, nearestVars, auxVars>>

Next ==
    \/ WorkerCatalogue
    \/ Catalogue
    \/ BeginStation
    \/ ProcessScan
    \/ EndStation
    \/ Return

Spec == Init /\ [][Next]_vars

(***************************************************************************)
(* SpecRerun: the worker is run again on the unchanged folder              *)
(***************************************************************************)
\* PostAnalysisWorker._run is started again for the same day with the same
\* configuration: nothing of the run before is left but the folder; the
\* tables it returned are remembered for comparison.
Rerun ==
    /\ pc = "returned"
    /\ prev_results' = flux_results
    /\ pc' = "idle"
    /\ scans' = [name \in Stations |-> <<>>]
    /\ scan_fnames' = [name \in Stations |-> <<>>]
    /\ scan_times' = [name \in Stations |-> <<>>]
    /\ st' = 0
    /\ row_i' = 0
    /\ flux_df' = <<>>
    /\ flux_results' = [name \in Stations |-> <<>>]
    /\ calls' = [name \in Stations |-> <<>>]
    /\ UNCHANGED <<disk, scan_pair_flag, arrived>>
    /\ UNCHANGED <<filterVars, nearestVars, workerVars, scannerVars,
                   paramVars>>

NextRerun ==
    \/ Next
    \/ Rerun

SpecRerun == Init /\ [][NextRerun]_vars

(***************************************************************************)
(* SpecLive: folders listed in any order, scan files arriving              *)
(***************************************************************************)
LiveMaxFiles == 2

MaxArrivals == 1

\* the ways to put c scan files into one station's so2 folder: c distinct
\* minutes, listed by os.listdir in any order
LiveFolders(c) ==
    { [exists |-> ex \/ c > 0,
       files |-> [k \in 1..c |->
                    [f |-> FileName(lst[k]), data |-> data[k]]]] :
        ex \in BOOLEAN,
        lst \in { l \in [1..c -> 0..MaxTime] :
                    \A a, b \in 1..c : a # b => l[a] # l[b] },
        data \in [1..c -> 1..Len(ScanLib)] }

LiveCounts ==
    { cnt \in [Stations -> 0..LiveMaxFiles] :
        cnt[StationNames[1]] + cnt[StationNames[2]] + cnt[StationNames[3]]
            <= LiveMaxFiles }

InitLive ==
    /\ \E cnt \in LiveCounts :
         \E a \in LiveFolders(cnt[StationNames[1]]),
            b \in LiveFolders(cnt[StationNames[2]]),
            c \in LiveFolders(cnt[StationNames[3]]) :
             disk = [name \in Stations |->
                        IF name = StationNames[1] THEN a
                        ELSE IF name = StationNames[2] THEN b ELSE c]
    /\ scan_pair_flag \in BOOLEAN
    /\ pc = "idle"
    /\ scans = [name \in Stations |-> <<>>]
    /\ scan_fnames = [name \in Stations |-> <<>>]
    /\ scan_times = [name \in Stations |-> <<>>]
    /\ st = 0
    /\ row_i = 0
    /\ flux_df = <<>>
    /\ flux_results = [name \in Stations |-> <<>>]
    /\ calls = [name \in Stations |-> <<>>]
    /\ FilterIdle
    /\ NearestIdle
    /\ AuxIdle

\* SyncWorker._run lines 149-157, running in its own thread: station.sync
\* copies a new scan file into <name>/so2/ (making the folder if need be);
\* os.listdir lists it before or after the files already there
Arrive ==
    /\ pc \notin {"returned", "raised"}
    /\ arrived < MaxArrivals
    /\ \E name \in Stations, t \in 0..MaxTime, data \in 1..Len(ScanLib),
          first \in BOOLEAN :
         /\ \A k \in 1..Len(disk[name].files) :
               disk[name].files[k].f # FileName(t)
         /\ disk' = [disk EXCEPT ![name] =
                        [exists |-> TRUE,
                         files |-> IF first
                                   THEN <<[f |-> FileName(t), data |-> data]>>
                                        \o @.files
                                   ELSE Append(@.files,
                                               [f |-> FileName(t),
                                                data |-> data])]]
    /\ arrived' = arrived + 1
    /\ UNCHANGED <<scan_pair_flag, pc, scans, scan_fnames, scan_times, st,
                   row_i, flux_df, flux_results, calls, prev_results>>
    /\ UNCHANGED <<filterVars, nearestVars, workerVars, scannerVars,
                   paramVars>>

NextLive ==
    \/ Next
    \/ Arrive

SpecLive == InitLive /\ [][NextLive]_vars

(***************************************************************************)
(* SpecCatalogue: get_local_scans call by call, scan files arriving        *)
(***************************************************************************)
\* get_local_scans lines 453-455, as called at line 280: two empty
\* dictionaries, the loop over the stations about to start
InitCatalogue ==
    /\ \E cnt \in LiveCounts :
         \E a \in LiveFolders(cnt[StationNames[1]]),
            b \in LiveFolders(cnt[StationNames[2]]),
            c \in LiveFolders(cnt[StationNames[3]]) :
             disk = [name \in Stations |->
                        IF name = StationNames[1] THEN a
                        ELSE IF name = StationNames[2] THEN b ELSE c]
    /\ scan_pair_flag = FALSE
    /\ pc = "list_fnames"
    /\ scans = [name \in Stations |-> <<>>]
    /\ scan_fnames = [name \in Stations |-> <<>>]
    /\ scan_times = [name \in Stations |-> <<>>]
    /\ st = 1
    /\ row_i = 0
    /\ flux_df = <<>>
    /\ flux_results = [name \in Stations |-> <<>>]
    /\ calls = [name \in Stations |-> <<>>]
    /\ FilterIdle
    /\ NearestIdle
    /\ AuxIdle

\* lines 459-463 (and 468-470): the first os.listdir of the station's
\* folder gives the file names; a missing folder gives two empty lists
ListFnames ==
    /\ pc = "list_fnames"
    /\ st <= Len(StationNames)
    /\ \E name \in {StationNames[st]} :
         IF disk[name].exists
         THEN /\ scan_fnames' =
                    [scan_fnames EXCEPT ![name] =
                        [k \in 1..Len(listdir(disk, name)) |->
                            ScanPath(name, listdir(disk, name)[k])]]
              /\ pc' = "list_times"
              /\ UNCHANGED <<scan_times, st>>
         ELSE /\ scan_fnames' = [scan_fnames EXCEPT ![name] = <<>>]
              /\ scan_times' = [scan_times EXCEPT ![name] = <<>>]
              /\ st' = st + 1
              /\ UNCHANGED pc
    /\ UNCHANGED <<disk, scan_pair_flag, scans, row_i, flux_df, flux_results,
                   calls>>
    /\ UNCHANGED <<filterVars, nearestVars, auxVars>>

\* lines 464-467: the second os.listdir of the same folder gives the
\* timestamps
ListTimes ==
    /\ pc = "list_times"
    /\ \E name \in {StationNames[st]} :
         scan_times' =
             [scan_times EXCEPT ![name] =
                 [k \in 1..Len(listdir(disk, name)) |->
                     strptime(listdir(disk, name)[k])]]
    /\ st' = st + 1
    /\ pc' = "list_fnames"
    /\ UNCHANGED <<disk, scan_pair_flag, scans, scan_fnames, row_i, flux_df,
                   flux_results, calls>>
    /\ UNCHANGED <<filterVars, nearestVars, auxVars>>

\* line 472: return scan_fnames, scan_times
CatalogueReturn ==
    /\ pc = "list_fnames"
    /\ st > Len(StationNames)
    /\ pc' = "catalogued"
    /\ UNCHANGED <<disk, scan_pair_flag, scans, scan_fnames, scan_times, st,
                   row_i, flux_df, flux_results, calls>>
    /\ UNCHANGED <<filterVars, nearestVars, auxVars>>

NextCatalogue ==
    \/ ListFnames
    \/ ListTimes
    \/ CatalogueReturn
    \/ Arrive

SpecCatalogue == InitCatalogue /\ [][NextCatalogue]_vars

(***************************************************************************)
(* SpecWorker: SyncWorker.run and PostAnalysisWorker.run                   *)
(***************************************************************************)
\* calculate_fluxes, modelled step by step in Spec, is one step here: it
\* returns one table per station or raises.
MaxNewScans == 1

\* the table calculate_fluxes returns for a station
FluxTable(name) == <<"flux_df", name>>

SuffixSame(kind) == "fluxes.csv"

\* f'{date}_{name}_fluxes.csv' and f'{date}_{name}_fluxes_reanalysed.csv'
Suffix(kind) == IF kind = "sync" THEN "fluxes.csv" ELSE "fluxes_reanalysed.csv"

\* the argument of updateFluxPlot
PlotMode(kind) == IF kind = "sync" THEN "RealTime" ELSE "Post"

\* a file <fpath>/<name>/<date>_<name>_<suffix> and its content
FluxFile(name, suffix, content) ==
    [station |-> name, suffix |-> suffix, content |-> content]

\* DataFrame.to_csv(path) when the folder of path does not exist: open()
\* raises FileNotFoundError; pandas from 1.3 on checks the folder itself
\* before opening and raises OSError('Cannot save file into a non-existent
\* directory'), which is not a FileNotFoundError
ToCsvErrors == {"FileNotFoundError", "OSError"}

\* except FileNotFoundError: pass
Caught(exc) == exc = "FileNotFoundError"

Signal(name, arg) == <<name, arg>>

\* nscans.any(): some station synced at least one new so2 scan
AnyNewScans ==
    \E name \in Stations : w_new[name] # Null /\ w_new[name][1] > 0

\* the content of a flux file written by an earlier run
OldContent == <<"flux_df of an earlier run">>

\* the flux files earlier runs of both workers have left in the station
\* folders that exist
OldFiles(folders) ==
    { FluxFile(name, suffix, OldContent) :
        name \in {n \in Stations : folders[n]},
        suffix \in {"fluxes.csv", "fluxes_reanalysed.csv"} }

\* sync_mode in ['spec', 'both'], sync_mode in ['so2', 'both']
SyncsSpectra(mode) == mode \in {"spec", "both"}

SyncsSO2(mode) == mode \in {"so2", "both"}

SkipNever(err) == FALSE

\* if err[0]: ... continue
SkipOnError(err) == err

FinishSignalsOnSuccess(raised, exc) ==
    IF raised THEN <<Signal("error", exc)>> ELSE <<Signal("finished", "")>>

\* run(): the error signal if _run raised, then the finished signal
FinishSignals(raised, exc) ==
    (IF raised THEN <<Signal("error", exc)>> ELSE <<>>)
    \o <<Signal("finished", "")>>

\* run() of either worker is called: SyncWorker._run starts its loop over
\* the stations with an empty scans dictionary, PostAnalysisWorker._run
\* starts with get_local_scans.  The station folders may or may not
\* exist, earlier runs may have left their flux files.
InitWorker ==
    /\ w_kind \in {"sync", "post"}
    /\ w_pc = IF w_kind = "sync" THEN "sync" ELSE "catalogue"
    /\ w_st = IF w_kind = "sync" THEN 1 ELSE 0
    /\ w_flag \in [Stations -> BOOLEAN]
    /\ w_mode \in {"spec", "so2", "both"}
    /\ w_kind = "post" =>
          (w_flag = [name \in Stations |-> FALSE] /\ w_mode = "both")
    /\ w_pulled = [name \in Stations |-> {}]
    /\ w_new = [name \in Stations |-> Null]
    /\ w_dir \in [Stations -> BOOLEAN]
    /\ w_k = 0
    /\ w_files \in {{}, OldFiles(w_dir)}
    /\ w_signals = <<>>
    /\ w_results = Null
    /\ w_exc = Null
    /\ prev_results = NoPrevious
    /\ arrived = 0
    /\ ScannerIdle
    /\ ParamsIdle
    /\ FilterIdle
    /\ NearestIdle
    /\ FluxIdle

\* SyncWorker._run lines 103-165: one station of the sync loop.  err is
\* what pull_status reports, haslog whether pull_log gave a file, n the
\* number of so2 files station.sync brought.
SyncStation ==
    /\ w_pc = "sync"
    /\ w_st <= Len(StationNames)
    /\ \E name \in {StationNames[w_st]} :
         IF ~w_flag[name]
         THEN /\ w_pulled' = [w_pulled EXCEPT ![name] = {"disabled"}]
              /\ UNCHANGED <<w_dir, w_new, w_signals>>
         ELSE \E err, haslog \in BOOLEAN, n \in 0..MaxNewScans :
                 /\ w_dir' = [w_dir EXCEPT ![name] = TRUE]
                 /\ IF SkipOnError(err)
                    THEN /\ w_pulled' = [w_pulled EXCEPT ![name] =
                                            {"status", "failed"}]
                         /\ w_signals' =
                               Append(w_signals,
                                      Signal("updateStationStatus", name))
                         /\ UNCHANGED w_new
                    ELSE /\ w_pulled' =
                               [w_pulled EXCEPT ![name] =
                                   {"status", "log"}
                                   \cup (IF err THEN {"failed"} ELSE {})
                                   \cup (IF SyncsSpectra(w_mode)
                                         THEN {"spec"} ELSE {})
                                   \cup (IF SyncsSO2(w_mode)
                                         THEN {"so2"} ELSE {})]
                         /\ w_signals' =
                               w_signals
                               \o <<Signal("updateStationStatus", name)>>
                               \o (IF haslog
                                   THEN <<Signal("updateLog", name)>>
                                   ELSE <<>>)
                               \o (IF SyncsSO2(w_mode)
                                   THEN <<Signal("updatePlots", name)>>
                                   ELSE <<>>)
                         /\ w_new' = IF SyncsSO2(w_mode)
                                     THEN [w_new EXCEPT ![name] = Some(n)]
                                     ELSE w_new
    /\ w_st' = w_st + 1
    /\ w_pc' = IF w_st = Len(StationNames) THEN "catalogue" ELSE "sync"
    /\ UNCHANGED <<w_kind, w_k, w_files, w_results, w_exc, w_flag, w_mode>>
    /\ UNCHANGED <<prev_results, arrived, scannerVars, paramVars>>
    /\ UNCHANGED <<filterVars, nearestVars, fluxVars>>

\* SyncWorker._run lines 167-174 and 192
SyncCatalogue ==
    /\ w_kind = "sync"
    /\ w_pc = "catalogue"
    /\ IF AnyNewScans
       THEN /\ w_signals' = Append(w_signals,
                                   Signal("updateGuiStatus",
                                          "Calculating fluxes"))
            /\ w_pc' = "fluxes"
       ELSE /\ w_signals' = Append(w_signals,
                                   Signal("updateGuiStatus", "Ready"))
            /\ w_pc' = "done"
    /\ UNCHANGED <<w_kind, w_new, w_dir, w_k, w_files, w_results, w_exc>>
    /\ UNCHANGED syncVars
    /\ UNCHANGED <<prev_results, arrived, scannerVars, paramVars>>
    /\ UNCHANGED <<filterVars, nearestVars, fluxVars>>

\* PostAnalysisWorker._run lines 240-248
PostCatalogue ==
    /\ w_kind = "post"
    /\ w_pc = "catalogue"
    /\ w_signals' = w_signals
                    \o [k \in 1..Len(StationNames) |->
                           Signal("updatePlots", StationNames[k])]
                    \o <<Signal("updateGuiStatus", "Calculating fluxes")>>
    /\ w_pc' = "fluxes"
    /\ UNCHANGED <<w_kind, w_new, w_dir, w_k, w_files, w_results, w_exc>>
    /\ UNCHANGED syncVars
    /\ UNCHANGED <<prev_results, arrived, scannerVars, paramVars>>
    /\ UNCHANGED <<filterVars, nearestVars, fluxVars>>

\* lines 175-179 and 250-256: calculate_fluxes returns its tables, or an
\* exception of one of its iterations leaves _run
WorkerFluxes ==
    /\ w_pc = "fluxes"
    /\ \E returns \in BOOLEAN :
         IF returns
         THEN /\ w_results' = Some([name \in Stations |-> FluxTable(name)])
              /\ w_k' = 1
              /\ w_pc' = "export"
              /\ UNCHANGED w_exc
         ELSE /\ w_exc' = Some("calculate_fluxes")
              /\ w_pc' = "raised"
              /\ UNCHANGED <<w_results, w_k>>
    /\ UNCHANGED <<w_kind, w_new, w_dir, w_files, w_signals>>
    /\ UNCHANGED syncVars
    /\ UNCHANGED <<prev_results, arrived, scannerVars, paramVars>>
    /\ UNCHANGED <<filterVars, nearestVars, fluxVars>>

\* lines 182-187 and 259-266: one station of the export loop
WorkerExport ==
    /\ w_pc = "export"
    /\ w_k <= Len(StationNames)
    /\ \E name \in {StationNames[w_k]} :
         IF w_dir[name]
         THEN /\ w_files' =
                    {f \in w_files :
                        ~(f.station = name /\ f.suffix = Suffix(w_kind))}
                    \cup {FluxFile(name, Suffix(w_kind), w_results[1][name])}
              /\ w_k' = w_k + 1
              /\ UNCHANGED <<w_pc, w_exc>>
         ELSE \E exc \in ToCsvErrors :
                 IF Caught(exc)
                 THEN /\ w_k' = w_k + 1
                      /\ UNCHANGED <<w_pc, w_exc, w_files>>
                 ELSE /\ w_exc' = Some(exc)
                      /\ w_pc' = "raised"
                      /\ UNCHANGED <<w_k, w_files>>
    /\ UNCHANGED <<w_kind, w_new, w_dir, w_signals, w_results>>
    /\ UNCHANGED syncVars
    /\ UNCHANGED <<prev_results, arrived, scannerVars, paramVars>>
    /\ UNCHANGED <<filterVars, nearestVars, fluxVars>>

\* lines 189-192 and 268-271: the flux plot is updated, the GUI is 'Ready'
WorkerPlot ==
    /\ w_pc = "export"
    /\ w_k > Len(StationNames)
    /\ w_signals' = w_signals
                    \o <<Signal("updateFluxPlot", PlotMode(w_kind)),
                         Signal("updateGuiStatus", "Ready")>>
    /\ w_pc' = "done"
    /\ UNCHANGED <<w_kind, w_new, w_dir, w_k, w_files, w_results, w_exc>>
    /\ UNCHANGED syncVars
    /\ UNCHANGED <<prev_results, arrived, scannerVars, paramVars>>
    /\ UNCHANGED <<filterVars, nearestVars, fluxVars>>

\* run(), lines 86-92 and 230-236: an exception of _run is reported by the
\* error signal; finished is emitted in either case
WorkerFinish ==
    /\ w_pc \in {"done", "raised"}
    /\ w_signals' = w_signals
                    \o FinishSignals(w_pc = "raised",
                                     IF w_exc = Null THEN "" ELSE w_exc[1])
    /\ w_pc' = "finished"
    /\ UNCHANGED <<w_kind, w_new, w_dir, w_k, w_files, w_results, w_exc>>
    /\ UNCHANGED syncVars
    /\ UNCHANGED <<prev_results, arrived, scannerVars, paramVars>>
    /\ UNCHANGED <<filterVars, nearestVars, fluxVars>>

NextWorker ==
    \/ SyncStation
    \/ SyncCatalogue
    \/ PostCatalogue
    \/ WorkerFluxes
    \/ WorkerExport
    \/ WorkerPlot
    \/ WorkerFinish

SpecWorker == InitWorker /\ [][NextWorker]_vars

(***************************************************************************)
(* Properties of calculate_fluxes and get_local_scans (Spec)               *)
(***************************************************************************)
\* the station whose table is in progress
InLoop(name) ==
    /\ pc \in {"scan", "raised"}
    /\ st \in 1..Len(StationNames)
    /\ StationNames[st] = name

\* the rows written so far for a station
Table(name) ==
    IF InLoop(name) THEN SubSeq(flux_df, 1, row_i) ELSE flux_results[name]

RowIds ==
    { id \in Stations \X (1..MaxFiles + 1) : id[2] <= Len(Table(id[1])) }

RowOf(id) == Table(id[1])[id[2]]

\* what filter_scan gives on the scan a row is about
OwnVerdict(id) == ScanLibFiltered[FileData(disk, scans[id[1]][id[2]])]

\* the candidate find_nearest_scan gives for the scan a row is about
Candidate(id) ==
    find_nearest_scan(id[1], strptime(os_path_tail(scans[id[1]][id[2]])),
                      scan_fnames, scan_times)

CandidateVerdict(id) ==
    ScanLibFiltered[FileData(disk, Candidate(id).fname[1])]

Analysable(id) == OwnVerdict(id).da # Null

\* C1: when calculate_fluxes returns, every station's table has exactly
\* one row per scan of the catalogue it was given, in scan order, each
\* filled in (rejected scans included).
C1_RowPerScan ==
    pc = "returned" =>
        \A name \in Stations :
            /\ Len(flux_results[name]) = Len(scans[name])
            /\ \A k \in 1..Len(scans[name]) :
                 /\ flux_results[name][k].time
                        = Some(strptime(os_path_tail(scans[name][k])))
                 /\ flux_results[name][k].scan_file
                        = Some(os_path_tail(scans[name][k]))

\* C1 witness: a returned run in which one station has a rejected and an
\* analysed scan
C1_Witness ==
    /\ pc = "returned"
    /\ \E name \in Stations :
         /\ Len(scans[name]) >= 2
         /\ \E k \in 1..Len(scans[name]) : ~Analysable(<<name, k>>)
         /\ \E k \in 1..Len(scans[name]) : Analysable(<<name, k>>)

C2_CodeSignedWindow ==
    \A id \in RowIds :
        RowOf(id).pair_station # Null =>
            /\ scan_pair_flag
            /\ RowOf(id).time[1] - strptime(RowOf(id).pair_file[1])
                   < scan_pair_time

Triangulated(id) ==
    LET r == RowOf(id)
        pair == ScanPath(r.pair_station[1], r.pair_file[1])
        tri == calc_plume_altitude(
                   id[1], r.pair_station[1], OwnVerdict(id).peak[1],
                   ScanLibFiltered[FileData(disk, pair)].peak[1])
    IN  /\ r.pair_station # Null
        /\ r.plume_alt = tri.alt
        /\ r.plume_dir = tri.az

Default(id) ==
    /\ RowOf(id).pair_station = Null
    /\ RowOf(id).plume_alt = Some(default_alt)
    /\ RowOf(id).plume_dir = Some(default_az)

C4_CodeTwoStates ==
    \A id \in RowIds :
        Analysable(id) =>
            /\ Triangulated(id) \/ Default(id)
            /\ ~scan_pair_flag => Default(id)
            /\ Candidate(id).fname = Null => Default(id)
            /\ (/\ Candidate(id).fname # Null
                /\ RowOf(id).time[1] - Candidate(id).ts[1]
                       >= scan_pair_time) => Default(id)
            /\ (/\ Candidate(id).fname # Null
                /\ CandidateVerdict(id).da = Null) => Default(id)

\* C5: the row of an analysable scan without a real pair has both pair
\* fields null.
C5_NoPairFieldsNull ==
    \A id \in RowIds :
        (Analysable(id) /\ RowOf(id).pair_station = Null) =>
            RowOf(id).pair_file = Null

\* what the code writes instead: the text 'None' as Pair File
C5_CodeNoneText ==
    \A id \in RowIds :
        (Analysable(id) /\ RowOf(id).pair_station = Null) =>
            RowOf(id).pair_file = Some(NoneText)

\* C6: the row of a scan that filter_scan rejects has its time and file
\* name and seven null fields, and the iteration made no call but the read
\* and the filter of the scan itself.
C6_RejectedRow ==
    \A id \in RowIds :
        ~Analysable(id) =>
            LET path == scans[id[1]][id[2]]
            IN  /\ RowOf(id) = Row(Some(strptime(os_path_tail(path))),
                                   Some(os_path_tail(path)), Null, Null,
                                   Null, Null, Null, Null, Null)
                /\ calls[id[1]][id[2]]
                       = <<Call("open_dataset", path),
                           Call("filter_scan", path)>>

\* C6 witness: the row of a rejected scan, pairing being enabled and
\* another station having an analysable scan of the same minute
C6_Witness ==
    /\ scan_pair_flag
    /\ \E id \in RowIds :
         /\ ~Analysable(id)
         /\ Candidate(id).fname # Null
         /\ Candidate(id).ts = RowOf(id).time
         /\ CandidateVerdict(id).da # Null

\* the paths and timestamps of the files a station's folder lists
Listed(name) ==
    [k \in 1..Len(disk[name].files) |->
        ScanPath(name, disk[name].files[k].f)]

ListedTimes(name) ==
    [k \in 1..Len(disk[name].files) |-> disk[name].files[k].f[2]]

\* C10: a station whose so2 folder does not exist gets empty file name and
\* timestamp lists, every other station its complete lists; the station
\* contributes no row and the cataloguing does not abort the run (a run
\* only ever raises inside the loop over the scans).
C10_MissingFolder ==
    /\ pc # "idle" /\ ~(pc = "raised" /\ st = 0) =>
          \A name \in Stations :
              scans[name] = IF disk[name].exists THEN Listed(name) ELSE <<>>
    /\ st >= 1 =>
          \A name \in Stations :
              /\ scan_fnames[name]
                     = IF disk[name].exists THEN Listed(name) ELSE <<>>
              /\ scan_times[name]
                     = IF disk[name].exists THEN ListedTimes(name) ELSE <<>>
    /\ \A name \in Stations : ~disk[name].exists => Table(name) = <<>>
    /\ pc = "raised" => (st >= 1 /\ row_i < Len(scans[StationNames[st]]))

\* C10 witness: a returned run with a station whose folder is missing and
\* another station that has rows
C10_Witness ==
    /\ pc = "returned"
    /\ \E name \in Stations : ~disk[name].exists
    /\ \E name \in Stations : Len(flux_results[name]) > 0

\* C14: nothing that happens while one scan is processed (its file or the
\* paired file being unreadable, a failure inside filter_scan) aborts the
\* run: calculate_fluxes never ends by raising out of its loop over scans.
C14_NoScanAbortsRun ==
    ~(pc = "raised" /\ st >= 1)

\* what the code does instead: a run that raised did so in an iteration
\* whose last call is a read or a filter, the table of the station in
\* progress and of every later station is never returned
C14_CodeAbortsOnRead ==
    (pc = "raised" /\ st >= 1) =>
        LET name == StationNames[st]
            made == calls[name][Len(calls[name])]
        IN  /\ made[Len(made)].op \in {"open_dataset", "read_csv",
                                         "filter_scan"}
            /\ \A k \in st..Len(StationNames) :
                  flux_results[StationNames[k]] = <<>>

\* the iterations logged so far, as <<station, index>>
IterationIds ==
    { id \in Stations \X (1..MaxFiles + 1) : id[2] <= Len(calls[id[1]]) }

\* the calls of an iteration that filter a file other than its own scan
CandidateFilters(id) ==
    LET made == calls[id[1]][id[2]]
    IN  { j \in 1..Len(made) :
            made[j].op = "filter_scan" /\ made[j].path # scans[id[1]][id[2]] }

\* the iteration filtered its candidate and filter_scan rejected it
CandidateRejected(id) ==
    /\ CandidateFilters(id) # {}
    /\ ~CandidateVerdict(id).raised
    /\ CandidateVerdict(id).da = Null

\* C16: an iteration filters at most one candidate and searches for a
\* candidate at most once; when the candidate it filtered is rejected, the
\* iteration completes, its row has no pair station and the default
\* altitude and azimuth, and the flux of the own scan is integrated with
\* that default geometry.
C16_RejectedCandidateDiscarded ==
    \A id \in IterationIds :
        LET made == calls[id[1]][id[2]]
            own == scans[id[1]][id[2]]
        IN  /\ Cardinality(CandidateFilters(id)) <= 1
            /\ Cardinality({j \in 1..Len(made) :
                                made[j].op = "find_nearest_scan"}) <= 1
            /\ CandidateRejected(id) =>
                  /\ id \in RowIds
                  /\ Default(id)
                  /\ made[Len(made)] = Call("calc_scan_flux", own)
                  /\ \A j \in 1..Len(made) :
                        made[j].op # "calc_plume_altitude"
                  /\ RowOf(id).flux
                        = calc_scan_flux(KeptAngles(OwnVerdict(id)), id[1],
                                         Some(default_alt),
                                         Some(default_az)).amt

\* C16 witness: a row whose candidate was filtered and rejected while a
\* third station has an analysable scan of the same minute
C16_Witness ==
    \E id \in RowIds :
        /\ CandidateRejected(id)
        /\ RowOf(id).flux # Null
        /\ \E name \in Stations \ {id[1], Candidate(id).station[1]} :
              \E k \in 1..Len(scans[name]) :
                 /\ strptime(os_path_tail(scans[name][k])) = RowOf(id).time[1]
                 /\ ScanLibFiltered[FileData(disk, scans[name][k])].da # Null

C17_RowsInTimeOrder ==
    \A name \in Stations :
        \A j, k \in 1..Len(Table(name)) :
            j < k => Table(name)[j].time[1] <= Table(name)[k].time[1]

\* what the code does instead: the rows are in the order of the listing
C17_CodeListingOrder ==
    \A name \in Stations :
        \A k \in 1..Len(Table(name)) :
            Table(name)[k].scan_file = Some(os_path_tail(scans[name][k]))

\* C19: one snapshot of the catalogue serves both purposes in a run: the
\* catalogue the candidates are taken from is the catalogue whose scans
\* get rows, and when the run returns every Pair File of a row is the
\* Scan File of a row of the pair station's table.
C19_OneSnapshot ==
    /\ st >= 1 => scan_fnames = scans
    /\ pc = "returned" =>
          \A id \in RowIds :
              RowOf(id).pair_station # Null =>
                  \E k \in 1..Len(flux_results[RowOf(id).pair_station[1]]) :
                      flux_results[RowOf(id).pair_station[1]][k].scan_file
                          = RowOf(id).pair_file

\* what the code guarantees instead: the Pair File is a scan of the
\* catalogue calculate_fluxes made itself, which holds every scan of the
\* catalogue it was given
C19_CodeTwoSnapshots ==
    /\ st >= 1 =>
          \A name \in Stations :
              \A k \in 1..Len(scans[name]) :
                  \E j \in 1..Len(scan_fnames[name]) :
                      scan_fnames[name][j] = scans[name][k]
    /\ \A id \in RowIds :
          RowOf(id).pair_station # Null =>
              \E j \in 1..Len(scan_fnames[RowOf(id).pair_station[1]]) :
                  os_path_tail(scan_fnames[RowOf(id).pair_station[1]][j])
                      = RowOf(id).pair_file[1]

(***************************************************************************)
(* Properties of get_local_scans call by call (SpecCatalogue)              *)
(***************************************************************************)
\* the two lists of a station are parallel
Parallel(name) ==
    /\ Len(scan_fnames[name]) = Len(scan_times[name])
    /\ \A k \in 1..Len(scan_fnames[name]) :
          k <= Len(scan_times[name]) =>
              scan_times[name][k] = strptime(os_path_tail(scan_fnames[name][k]))

\* C18: for every station the file names and timestamps get_local_scans
\* returns have the same length and timestamps[i] is the timestamp of
\* filenames[i], also when scan files are added to the folder while the
\* catalogue is being made.
C18_ParallelLists ==
    pc = "catalogued" => \A name \in Stations : Parallel(name)

\* what the code guarantees instead: the lists are parallel when no file
\* was added in between, and the timestamps are always those of the
\* folder's files at the second listing
C18_CodeParallelIfQuiet ==
    pc = "catalogued" =>
        /\ arrived = 0 => \A name \in Stations : Parallel(name)
        /\ \A name \in Stations :
              Len(scan_fnames[name]) <= Len(scan_times[name])

(***************************************************************************)
(* Properties of the workers (SpecWorker)                                  *)
(***************************************************************************)
Emitted(sig) == \E k \in 1..Len(w_signals) : w_signals[k] = sig

\* the flux file of a station has been written in this run
Written(name) ==
    FluxFile(name, Suffix(w_kind), FluxTable(name)) \in w_files

\* the export loop was entered and the folder of some station is missing
ExportFailed ==
    /\ w_results # Null
    /\ \E name \in Stations : ~w_dir[name]

\* C11: in both workers, when the table of a station cannot be written
\* because its folder is absent, the table of every station whose folder
\* exists is written all the same, and the run emits the flux-plot update
\* and the 'Ready' status.
C11_ExportFailureContained ==
    (w_pc = "finished" /\ ExportFailed) =>
        /\ \A name \in Stations : w_dir[name] => Written(name)
        /\ Emitted(Signal("updateFluxPlot", PlotMode(w_kind)))
        /\ Emitted(Signal("updateGuiStatus", "Ready"))

\* what the code guarantees instead: the failure is contained when to_csv
\* raises FileNotFoundError; any other exception of to_csv ends the run
\* with the error signal, the later stations unwritten, no plot update
\* and no 'Ready'
C11_CodeCatchesFileNotFound ==
    (w_pc = "finished" /\ ExportFailed) =>
        IF w_exc = Null
        THEN /\ \A name \in Stations : w_dir[name] => Written(name)
             /\ Emitted(Signal("updateFluxPlot", PlotMode(w_kind)))
             /\ Emitted(Signal("updateGuiStatus", "Ready"))
        ELSE /\ w_exc = Some("OSError")
             /\ Emitted(Signal("error", "OSError"))
             /\ ~Emitted(Signal("updateGuiStatus", "Ready"))

(***************************************************************************)
(* Properties of find_nearest_scan (SpecNearest)                           *)
(***************************************************************************)
\* the scans of all other stations, as <<station, index>>
OtherScans ==
    { sc \in (Stations \ {n_station}) \X (1..NearMaxFiles + 1) :
        sc[2] <= Len(n_times[sc[1]]) }

\* C3: with two or more other stations holding scans, the scan returned by
\* find_nearest_scan has the minimal absolute time delta to scan_time over
\* all scans of all other stations.
C3_GlobalMinByDelta ==
    (/\ n_out # NotCalled
     /\ Cardinality({name \in Stations \ {n_station} :
                        Len(n_fnames[name]) > 0}) >= 2)
        => /\ n_out.ts # Null
           /\ \A sc \in OtherScans :
                 Abs(n_out.ts[1] - n_time)
                     <= Abs(n_times[sc[1]][sc[2]] - n_time)

\* the smallest absolute time delta of a station's scans to scan_time
MinDelta(name) ==
    LET D == {Abs(n_times[name][k] - n_time) : k \in 1..Len(n_times[name])}
    IN  CHOOSE d \in D : \A e \in D : d <= e

\* the other stations that have scans
OtherStations ==
    {name \in Stations \ {n_station} : Len(n_fnames[name]) > 0}

\* the other stations whose nearest scan has the globally minimal delta
TiedStations ==
    {name \in OtherStations :
        \A other \in OtherStations : MinDelta(name) <= MinDelta(other)}

\* the first station of a set in the iteration order of the catalogue
FirstStation(S) ==
    StationNames[CHOOSE k \in 1..Len(StationNames) :
                    /\ StationNames[k] \in S
                    /\ \A j \in 1..(k - 1) : StationNames[j] \notin S]

\* C12: when two or more other stations have a nearest scan with the same
\* minimal absolute delta to scan_time (one may be earlier, one later),
\* find_nearest_scan returns the scan of the first of these stations in
\* catalogue order.
C12_FirstStationWinsTies ==
    (n_out # NotCalled /\ Cardinality(TiedStations) >= 2)
        => n_out.station = Some(FirstStation(TiedStations))

\* what the code does on such a tie: the first station wins only among
\* the tied scans with the earliest timestamp
C12_CodeEarliestWinsTies ==
    (n_out # NotCalled /\ Cardinality(TiedStations) >= 2)
        => \/ n_out.station = Some(FirstStation(TiedStations))
           \/ \E name \in TiedStations :
                 \E k \in 1..Len(n_times[name]) :
                    n_times[name][k] > n_out.ts[1]

\* C13: find_nearest_scan returns (None, None, None) exactly when no other
\* station has a scan; otherwise the file name, timestamp and station it
\* returns are those of one scan of a station other than station_name.
C13_NoneIffNoOtherScan ==
    n_out # NotCalled =>
        /\ n_out.fname = Null <=> OtherScans = {}
        /\ n_out.ts = Null <=> OtherScans = {}
        /\ n_out.station = Null <=> OtherScans = {}
        /\ OtherScans # {} =>
              \E sc \in OtherScans :
                 /\ n_out.station = Some(sc[1])
                 /\ n_out.ts = Some(n_times[sc[1]][sc[2]])
                 /\ n_out.fname = Some(n_fnames[sc[1]][sc[2]])

\* C13 witness: station_name itself has a scan at scan_time, earlier than
\* every scan of the other stations, and a scan of another station was
\* returned
C13_Witness ==
    /\ n_out # NotCalled
    /\ n_out.station # Null
    /\ \E k \in 1..Len(n_times[n_station]) : n_times[n_station][k] = n_time
    /\ \A sc \in OtherScans : n_times[sc[1]][sc[2]] > n_time

\* C13 witness: a call that returned (None, None, None) although
\* station_name has scans
C13_WitnessNone ==
    /\ n_out # NotCalled
    /\ n_out.fname = Null
    /\ Len(n_times[n_station]) > 0

(***************************************************************************)
(* Properties of filter_scan (SpecFilter)                                  *)
(***************************************************************************)
Returned == f_out # Pending /\ ~f_out.raised

\* a sample fails at least one of the four SCD/intensity bounds
Fails(s) ==
    s.SO2 < min_scd \/ s.SO2 > max_scd \/ s.int_av < min_int
    \/ s.int_av > max_int

\* a sample is strictly inside the four bounds
Inside(s) ==
    s.SO2 > min_scd /\ s.SO2 < max_scd /\ s.int_av > min_int
    /\ s.int_av < max_int

NFailing == Cardinality({i \in 1..Len(f_scan) : Fails(f_scan[i])})

\* C7: filter_scan answers 'Not enough good spectra' exactly when the
\* number of samples failing a bound is strictly greater than
\* good_scan_lim times the number of samples; a scan whose failing count
\* equals the limit is not rejected for low signal.
C7_LowSignalExactly ==
    Returned =>
        (f_out.msg = "Not enough good spectra"
            <=> NFailing * good_scan_lim[2] > good_scan_lim[1] * Len(f_scan))

\* C7 witness: 2 of 10 samples fail (exactly good_scan_lim) and the scan
\* got past the low-signal gate
C7_Witness ==
    /\ Returned
    /\ Len(f_scan) = 10
    /\ NFailing = 2
    /\ f_out.msg # "Not enough good spectra"

\* C7, the example of the claim: 1 of 4 samples fails (25%) and the scan
\* is rejected as low signal
C7_Example25 ==
    (Returned /\ Len(f_scan) = 4 /\ NFailing = 1)
        => f_out.msg = "Not enough good spectra"

\* kept samples whose SO2 value is below the plume threshold
NPlumeBySO2 ==
    Cardinality({i \in 1..Len(f_scan) :
                    Inside(f_scan[i]) /\ f_scan[i].SO2 < plume_scd})

\* C8: a scan that passes the low-signal gate is answered 'Not enough
\* plume spectra' whenever fewer than 10 of its kept samples qualify as
\* plume samples by comparing their SO2 value with plume_scd.
C8_PlumeCountBySO2 ==
    (Returned /\ f_out.msg # "Not enough good spectra"
        /\ NPlumeBySO2 < MinPlume)
        => f_out.msg = "Not enough plume spectra"

\* what the code does instead: past the low-signal gate the scan is
\* rejected for plume spectra exactly when it has fewer than 10 samples
C8_CodeCountsSamples ==
    (Returned /\ f_out.msg # "Not enough good spectra")
        => (f_out.msg = "Not enough plume spectra"
                <=> Len(f_scan) < MinPlume)

\* C9: the peak angle of an analysed scan is the angle of a kept sample,
\* namely of one whose smoothed SCD is maximal among the kept samples;
\* with the identity smoothing (window 1) that sample has the largest SO2
\* value of the kept samples.
C9_PeakIsKeptMax ==
    f_out.msg = "Scan analysed" =>
        LET keptIdx == Where([i \in 1..Len(f_scan) |-> Inside(f_scan[i])])
            y == [j \in 1..Len(keptIdx) |-> f_scan[keptIdx[j]].SO2]
            sm == savgol_filter(y, f_sg[1], f_sg[2])
        IN  \E j \in 1..Len(keptIdx) :
                /\ f_out.peak = Some(f_scan[keptIdx[j]].angle)
                /\ \A l \in 1..Len(keptIdx) : sm[l] <= sm[j]
                /\ f_sg[1] = 1 =>
                       \A l \in 1..Len(keptIdx) : y[l] <= y[j]

\* C9 witness: an analysed scan in which a sample that failed a bound has
\* a larger SO2 value than every kept sample, and comes before the peak
C9_Witness ==
    /\ f_out.msg = "Scan analysed"
    /\ \E i \in 1..Len(f_scan) :
          /\ Fails(f_scan[i])
          /\ \A l \in 1..Len(f_scan) :
                Inside(f_scan[l]) => f_scan[l].SO2 < f_scan[i].SO2
          /\ f_out.peak[1] > f_scan[i].angle

\* C20: the keep mask of an analysed scan is the exact complement of the
\* reject mask: a sample is kept if and only if it fails none of the four
\* bounds, samples equal to a bound included.
C20_KeepIsComplement ==
    f_out.msg = "Scan analysed" =>
        \A i \in 1..Len(f_scan) : f_out.filter[i] <=> ~Fails(f_scan[i])

\* what the code does instead: a sample is kept if and only if it is
\* strictly inside the four bounds; a sample on a bound is neither
\* rejected nor kept
C20_CodeStrictBothWays ==
    f_out.msg = "Scan analysed" =>
        /\ \A i \in 1..Len(f_scan) : f_out.filter[i] <=> Inside(f_scan[i])
        /\ \A i \in 1..Len(f_scan) : ~(f_out.filter[i] /\ Fails(f_scan[i]))

\* the number of samples of the scan that the keep mask keeps
NKept == Cardinality({i \in 1..Len(f_scan) : Inside(f_scan[i])})

\* C21: a scan without a kept sample is answered by a rejection:
\* filter_scan returns (None, None, reason) and never gets to smoothing
\* and peak selection with an empty kept sequence.
C21_ZeroKeptRejected ==
    (f_out # Pending /\ NKept = 0) =>
        /\ ~f_out.raised
        /\ f_out.da = Null
        /\ f_out.msg \in {"Not enough good spectra",
                          "Not enough plume spectra"}

\* what the code does instead: a scan without a kept sample is rejected
\* when more than good_scan_lim of its samples fail a bound or when it has
\* fewer than 10 samples; otherwise (its samples sit on the bounds)
\* smoothing and argmax run on the empty sequence and the call raises
C21_CodeRaisesOnEmpty ==
    (f_out # Pending /\ NKept = 0) =>
        IF NFailing * good_scan_lim[2] > good_scan_lim[1] * Len(f_scan)
        THEN f_out.msg = "Not enough good spectra"
        ELSE IF Len(f_scan) < MinPlume
        THEN f_out.msg = "Not enough plume spectra"
        ELSE f_out.raised

\* C22: smoothing is never applied with a window wider than the number of
\* kept samples: a scan that filter_scan analyses has at least sg_window
\* kept samples (the window clipped, or the scan rejected otherwise).
C22_WindowWithinKept ==
    f_out.msg = "Scan analysed" => f_sg[1] <= NKept

\* what the code does instead: any scan of at least 10 samples that
\* passes the low-signal gate and keeps one sample is smoothed with the
\* window as configured, the sequence being extended by its edge values
C22_CodeSmoothsShortScans ==
    (Returned /\ Len(f_scan) >= MinPlume /\ NKept >= 1
        /\ NFailing * good_scan_lim[2] <= good_scan_lim[1] * Len(f_scan))
        => f_out.msg = "Scan analysed"

(***************************************************************************)
(* Properties of SyncWorker.run and PostAnalysisWorker.run (SpecWorker)    *)
(***************************************************************************)
\* the suffix of the file names of this worker, and of the other worker
OwnSuffix == IF w_kind = "sync" THEN "fluxes.csv" ELSE "fluxes_reanalysed.csv"

OtherSuffix == IF w_kind = "sync" THEN "fluxes_reanalysed.csv" ELSE "fluxes.csv"

\* C25: the SyncWorker writes a station's table only to
\* <date>_<station>_fluxes.csv and the PostAnalysisWorker only to
\* <date>_<station>_fluxes_reanalysed.csv, so neither overwrites the table
\* of the other; each write fully replaces the previous content of its
\* own file.
C25_SeparateFluxFiles ==
    /\ \A f \in w_files :
          /\ f.suffix \in {OwnSuffix, OtherSuffix}
          /\ f.suffix = OtherSuffix => f.content = OldContent
          /\ f.content # OldContent => f.content = FluxTable(f.station)
    /\ \A f, g \in w_files :
          (f.station = g.station /\ f.suffix = g.suffix) => f = g
    /\ \A k \in 1..Len(StationNames) :
          (w_pc = "export" /\ k < w_k /\ w_dir[StationNames[k]]) =>
              FluxFile(StationNames[k], OwnSuffix,
                       FluxTable(StationNames[k])) \in w_files

\* a re-analysis has replaced its own old table of a station and left the
\* real-time table of that station as it was
C25_Witness ==
    /\ w_kind = "post"
    /\ w_pc = "finished"
    /\ \E name \in Stations :
          /\ FluxFile(name, "fluxes_reanalysed.csv", FluxTable(name))
                \in w_files
          /\ FluxFile(name, "fluxes.csv", OldContent) \in w_files

\* the positions of a signal in the sequence of emitted signals
Positions(signame) ==
    {k \in 1..Len(w_signals) : w_signals[k][1] = signame}

\* C26: every call of run of either worker emits finished exactly once and
\* as its last signal, whether _run completes or raises; error is emitted
\* at most once, only when _run raised, and before finished.
C26_FinishedOnceAndLast ==
    /\ w_pc # "finished" =>
          (Positions("finished") = {} /\ Positions("error") = {})
    /\ w_pc = "finished" =>
          /\ Positions("finished") = {Len(w_signals)}
          /\ Cardinality(Positions("error")) <= 1
          /\ Positions("error") # {} <=> w_exc # Null
          /\ \A k \in Positions("error") : k < Len(w_signals)

\* a run whose _run raised has emitted error and then finished
C26_Witness ==
    /\ w_pc = "finished"
    /\ w_exc # Null
    /\ Len(w_signals) >= 2
    /\ w_signals[Len(w_signals) - 1][1] = "error"
    /\ w_signals[Len(w_signals)][1] = "finished"

\* some station synced at least one new so2 scan file in this run
NewScanSynced ==
    \E name \in Stations : w_new[name] \notin {Null, Some(0)}

\* a flux file holds a table of this run
TableWritten ==
    \E f \in w_files : f.content # OldContent

\* C27: in a SyncWorker run, fluxes are recomputed and flux tables written
\* if and only if some station synced a new so2 scan file in that run, and
\* then for all stations; with no new so2 scan (or a sync_mode without so2)
\* no flux table is written and the flux plot is not updated.
C27_FluxesIffNewScans ==
    (w_kind = "sync" /\ w_pc = "finished") =>
        /\ Emitted(Signal("updateGuiStatus", "Calculating fluxes"))
              <=> NewScanSynced
        /\ TableWritten => NewScanSynced
        /\ NewScanSynced =>
              \A name \in Stations :
                  w_dir[name] =>
                      FluxFile(name, "fluxes.csv", FluxTable(name))
                         \in w_files
        /\ ~NewScanSynced =>
              ~Emitted(Signal("updateFluxPlot", "RealTime"))

\* what the code guarantees instead: the recomputation is attempted if and
\* only if a new so2 scan was synced, and covers all stations; tables are
\* written and the plot updated only then, and all tables are written when
\* neither calculate_fluxes nor to_csv raises
C27_CodeGatesOnNewScans ==
    (w_kind = "sync" /\ w_pc \notin {"sync", "catalogue"}) =>
        /\ Emitted(Signal("updateGuiStatus", "Calculating fluxes"))
              <=> NewScanSynced
        /\ w_mode = "spec" => ~NewScanSynced
        /\ w_results # Null =>
              /\ NewScanSynced
              /\ w_results[1] = [name \in Stations |-> FluxTable(name)]
        /\ TableWritten => NewScanSynced
        /\ ~NewScanSynced =>
              /\ w_results = Null
              /\ ~Emitted(Signal("updateFluxPlot", "RealTime"))
        /\ (w_pc = "finished" /\ w_exc = Null /\ NewScanSynced) =>
              /\ \A name \in Stations :
                    w_dir[name] =>
                        FluxFile(name, "fluxes.csv", FluxTable(name))
                           \in w_files
              /\ Emitted(Signal("updateFluxPlot", "RealTime"))

\* the sync loop has dealt with the station
Visited(name) ==
    \E k \in 1..Len(StationNames) :
        StationNames[k] = name /\ (w_pc # "sync" \/ k < w_st)

\* C29: in a SyncWorker run, a station whose sync flag is off or whose
\* status pull reports a connection error has no log or scan files pulled,
\* the loop proceeds to the remaining stations, and the station is not
\* among the newly synced scans that trigger the flux recomputation.
C29_SkippedStationNotSynced ==
    w_kind = "sync" =>
        /\ \A name \in Stations :
              (Visited(name)
                 /\ (~w_flag[name] \/ "failed" \in w_pulled[name])) =>
                  /\ w_pulled[name] \cap {"log", "spec", "so2"} = {}
                  /\ w_new[name] = Null
                  /\ ~Emitted(Signal("updateLog", name))
                  /\ ~Emitted(Signal("updatePlots", name))
        /\ \A name \in Stations :
              Visited(name) <=> w_pulled[name] # {}
        /\ w_pc # "sync" => \A name \in Stations : Visited(name)

\* the status pull of the first station failed, the station after it is
\* disabled, and the last station has synced a new scan
C29_Witness ==
    /\ w_kind = "sync"
    /\ w_pc = "catalogue"
    /\ "failed" \in w_pulled[StationNames[1]]
    /\ ~w_flag[StationNames[2]]
    /\ w_new[StationNames[3]] = Some(1)

(***************************************************************************)
(* run_scanner.py: main_loop from its scanning loop on (SpecScanner)       *)
(***************************************************************************)
\* the number of scans after which the stop time has come
MaxScans == 5

\* the elements of a sequence
Range(seq) == {seq[k] : k \in 1..Len(seq)}

\* log_status(status): the status file is rewritten, a failure of the
\* write is logged and swallowed
log_status(old, new) == {old, new}

\* processes = [p for p in processes if p.is_alive()]
PruneFinished(procs, living) == SelectSeq(procs, LAMBDA p : p \in living)

PoolHasRoomThree(n) == n <= 3

\* if len(processes) <= 2:
PoolHasRoom(n) == n <= 2

CanJoinAlive(p, living) == TRUE

\* p.join() returns once the process has terminated
CanJoin(p, living) == p \notin living

NextScanNumberIfStarted(n, wasStarted) == IF wasStarted THEN n + 1 ELSE n

\* scanner.scan_number += 1
NextScanNumber(n, wasStarted) == n + 1

\* lines 182-204: the process list is empty, the scanner is engaged and has
\* made no scan, the status file says 'Idle'
InitScanner ==
    /\ m_pc = "check"
    /\ processes = <<>>
    /\ alive = {}
    /\ scan_number = 0
    /\ status = "Idle"
    /\ scanner_state = "engaged"
    /\ acquired = 0
    /\ started = {}
    /\ not_analysed = {}
    /\ m_join = 0
    /\ ParamsIdle
    /\ WorkerIdle
    /\ prev_results = NoPrevious
    /\ arrived = 0
    /\ FilterIdle
    /\ NearestIdle
    /\ FluxIdle

\* line 207: while datetime.now().time() < stop_time, and line 210
LoopCheck ==
    /\ m_pc = "check"
    /\ \E go \in BOOLEAN :
         IF go /\ scan_number < MaxScans
         THEN /\ status' \in log_status(status, "Active")
              /\ m_pc' = "acquire"
         ELSE /\ m_pc' = "home"
              /\ UNCHANGED status
    /\ UNCHANGED <<processes, alive, scan_number, scanner_state, acquired,
                   started, not_analysed, m_join>>
    /\ UNCHANGED <<prev_results, arrived, workerVars, paramVars>>
    /\ UNCHANGED <<filterVars, nearestVars, fluxVars>>

\* lines 214-224: scanner.acquire_scan, the integration time is updated
AcquireScan ==
    /\ m_pc = "acquire"
    /\ acquired' = acquired + 1
    /\ m_pc' = "prune"
    /\ UNCHANGED <<processes, alive, scan_number, status, scanner_state,
                   started, not_analysed, m_join>>
    /\ UNCHANGED <<prev_results, arrived, workerVars, paramVars>>
    /\ UNCHANGED <<filterVars, nearestVars, fluxVars>>

\* line 227: the finished processes leave the list
Prune ==
    /\ m_pc = "prune"
    /\ processes' = PruneFinished(processes, alive)
    /\ m_pc' = "dispatch"
    /\ UNCHANGED <<alive, scan_number, status, scanner_state, acquired,
                   started, not_analysed, m_join>>
    /\ UNCHANGED <<prev_results, arrived, workerVars, paramVars>>
    /\ UNCHANGED <<filterVars, nearestVars, fluxVars>>

\* lines 231-260: the analysis of the scan is started in a new process, or
\* the scan is logged as not analysed; the scan number advances.  The
\* process that analyses scan n is called n.
Dispatch ==
    /\ m_pc = "dispatch"
    /\ IF PoolHasRoom(Len(processes))
       THEN /\ processes' = Append(processes, scan_number)
            /\ alive' = alive \cup {scan_number}
            /\ started' = started \cup {scan_number}
            /\ UNCHANGED not_analysed
       ELSE /\ not_analysed' = not_analysed \cup {scan_number}
            /\ UNCHANGED <<processes, alive, started>>
    /\ scan_number' = NextScanNumber(scan_number,
                                     PoolHasRoom(Len(processes)))
    /\ m_pc' = "check"
    /\ UNCHANGED <<status, scanner_state, acquired, m_join>>
    /\ UNCHANGED <<prev_results, arrived, workerVars, paramVars>>
    /\ UNCHANGED <<filterVars, nearestVars, fluxVars>>

\* lines 263-264: scanner.find_home(), scanner.motor.release()
Home ==
    /\ m_pc = "home"
    /\ scanner_state' = "released"
    /\ m_join' = 1
    /\ m_pc' = "join"
    /\ UNCHANGED <<processes, alive, scan_number, status, acquired, started,
                   not_analysed>>
    /\ UNCHANGED <<prev_results, arrived, workerVars, paramVars>>
    /\ UNCHANGED <<filterVars, nearestVars, fluxVars>>

\* lines 268-269: for p in processes: p.join()
JoinNext ==
    /\ m_pc = "join"
    /\ m_join <= Len(processes)
    /\ CanJoin(processes[m_join], alive)
    /\ m_join' = m_join + 1
    /\ UNCHANGED <<m_pc, processes, alive, scan_number, status,
                   scanner_state, acquired, started, not_analysed>>
    /\ UNCHANGED <<prev_results, arrived, workerVars, paramVars>>
    /\ UNCHANGED <<filterVars, nearestVars, fluxVars>>

\* line 272: log_status('Asleep')
Sleep ==
    /\ m_pc = "join"
    /\ m_join > Len(processes)
    /\ status' \in log_status(status, "Asleep")
    /\ m_pc' = "asleep"
    /\ UNCHANGED <<processes, alive, scan_number, scanner_state, acquired,
                   started, not_analysed, m_join>>
    /\ UNCHANGED <<prev_results, arrived, workerVars, paramVars>>
    /\ UNCHANGED <<filterVars, nearestVars, fluxVars>>

\* analyse_scan returns in one of the analysis processes (lines 241-250)
ProcessExit ==
    /\ m_pc # "off"
    /\ \E p \in alive : alive' = alive \ {p}
    /\ UNCHANGED <<m_pc, processes, scan_number, status, scanner_state,
                   acquired, started, not_analysed, m_join>>
    /\ UNCHANGED <<prev_results, arrived, workerVars, paramVars>>
    /\ UNCHANGED <<filterVars, nearestVars, fluxVars>>

NextScanner ==
    \/ LoopCheck
    \/ AcquireScan
    \/ Prune
    \/ Dispatch
    \/ Home
    \/ JoinNext
    \/ Sleep
    \/ ProcessExit

SpecScanner == InitScanner /\ [][NextScanner]_vars

(***************************************************************************)
(* Properties of main_loop (SpecScanner)                                   *)
(***************************************************************************)
\* a step that starts an analysis leaves at most two others alive; a step
\* that logs a scan as not analysed starts nothing; the dispatch does one
\* or the other
DispatchStep ==
    /\ started' # started =>
          (Cardinality(alive) <= 2 /\ not_analysed' = not_analysed)
    /\ not_analysed' # not_analysed =>
          /\ Len(processes) > 2
          /\ processes' = processes
          /\ alive' = alive
          /\ started' = started
    /\ m_pc = "dispatch" =>
          (started' # started \/ not_analysed' # not_analysed
             \/ alive' # alive)

\* C23: at any time at most three scan-analysis processes are alive: after
\* each scan the finished processes are pruned and a new analysis process
\* is started only if no more than two are still alive; otherwise the scan
\* is logged as not analysed and no process is started.
C23_AtMostThreeAlive ==
    /\ [](/\ Cardinality(alive) <= 3
          /\ alive \subseteq Range(processes)
          /\ Len(processes) <= 3
          /\ started \cap not_analysed = {})
    /\ [][DispatchStep]_vars

\* three analyses are running and a scan has been logged as not analysed
C23_Witness ==
    /\ Cardinality(alive) = 3
    /\ not_analysed # {}

\* once the stop time check has failed nothing is acquired or started
ShutdownStep ==
    m_pc \in {"home", "join", "asleep"} =>
        /\ m_pc' \in {"home", "join", "asleep"}
        /\ acquired' = acquired
        /\ started' = started
        /\ alive' \subseteq alive
        /\ scan_number' = scan_number

\* C24: 'Asleep' is written only after the scan loop has ended, the
\* scanner has been returned home and released and every analysis process
\* still alive has terminated; no scan is acquired and no analysis is
\* started after the stop time check has failed.
C24_AsleepAfterShutdown ==
    /\ [](status = "Asleep" =>
             /\ m_pc = "asleep"
             /\ scanner_state = "released"
             /\ alive = {})
    /\ [](scanner_state = "released" <=> m_pc \in {"join", "asleep"})
    /\ [][ShutdownStep]_vars

\* the station sleeps after a run of four or more scans that left three
\* analysis processes to join
C24_Witness ==
    /\ status = "Asleep"
    /\ Len(processes) = 3
    /\ acquired >= 4

\* C28: a scan that completes while the process pool is full is never
\* analysed later in that run, yet the scan number advances by exactly one
\* per acquired scan whether or not its analysis was started.
C28_NoRetryNumberAdvances ==
    /\ scan_number =
          IF m_pc \in {"prune", "dispatch"} THEN acquired - 1 ELSE acquired
    /\ started \cup not_analysed = 0..(scan_number - 1)
    /\ not_analysed \cap started = {}
    /\ not_analysed \cap Range(processes) = {}
    /\ not_analysed \cap alive = {}

\* a scan was not analysed, the pool has emptied since and a later scan is
\* being analysed
C28_Witness ==
    /\ not_analysed # {}
    /\ \E n \in not_analysed, later \in alive : later > n
    /\ \A n \in not_analysed : n \notin started

(***************************************************************************)
(* ifit/parameters.py: Parameters.update_values (SpecParams)               *)
(***************************************************************************)
\* the largest number of parameters, and of entries of new_values
MaxParams == 3

\* Parameter(name, value, vary, lo_bound=lo_bound, hi_bound=hi_bound): the
\* other attributes take their defaults
Parameter(name, value, vary, lo_bound, hi_bound) ==
    [name |-> name, value |-> value, vary |-> vary, xpath |-> Null,
     plume_gas |-> FALSE, lo_bound |-> lo_bound, hi_bound |-> hi_bound,
     fit_val |-> "nan", fit_err |-> "nan"]

\* the k-th parameter that was added: its name and initial value are told
\* by k, it is fitted or fixed, with one of two lower bounds
ParameterChoices(k) ==
    { Parameter(<<"par", k>>, k, vary, lo_bound, 10 + k) :
        vary \in BOOLEAN, lo_bound \in {-2, -1} }

\* Parameter.set(value=entry): an entry of new_values is Some(number), or
\* Null for None, which leaves the value as it is
ParamSet(par, entry) ==
    IF entry = Null THEN par ELSE [par EXCEPT !.value = entry[1]]

RECURSIVE UpdateByPosition(_, _, _)
UpdateByPosition(params, new_values, k) ==
    IF k > Len(params)
    THEN [params |-> params, raised |-> FALSE]
    ELSE IF ~params[k].vary
         THEN UpdateByPosition(params, new_values, k + 1)
         ELSE IF k > Len(new_values)
              THEN [params |-> params, raised |-> TRUE]
              ELSE UpdateByPosition(
                       [params EXCEPT ![k] = ParamSet(@, new_values[k])],
                       new_values, k + 1)

update_values_by_position(params, new_values) ==
    UpdateByPosition(params, new_values, 1)

\* the loop of update_values from the k-th parameter on, n entries of
\* new_values used so far; new_values[n] past the end raises IndexError
\* and leaves the earlier assignments in place
RECURSIVE UpdateFrom(_, _, _, _)
UpdateFrom(params, new_values, k, n) ==
    IF k > Len(params)
    THEN [params |-> params, raised |-> FALSE]
    ELSE IF ~params[k].vary
         THEN UpdateFrom(params, new_values, k + 1, n)
         ELSE IF n + 1 > Len(new_values)
              THEN [params |-> params, raised |-> TRUE]
              ELSE UpdateFrom(
                       [params EXCEPT ![k] = ParamSet(@, new_values[n + 1])],
                       new_values, k + 1, n + 1)

\* Parameters.update_values(new_values)
update_values(params, new_values) == UpdateFrom(params, new_values, 1, 0)

\* [p for p in self.values() if p.vary]
Varying(params) == SelectSeq(params, LAMBDA par : par.vary)

\* Parameters.fittedvalueslist()
fittedvalueslist(params) ==
    [j \in 1..Len(Varying(params)) |-> Varying(params)[j].value]

\* Parameters.bounds()
bounds(params) ==
    << [j \in 1..Len(Varying(params)) |-> Varying(params)[j].lo_bound],
       [j \in 1..Len(Varying(params)) |-> Varying(params)[j].hi_bound] >>

\* the sequences of at most len elements of a set
SeqsUpTo(set, len) == UNION {[1..m -> set] : m \in 0..len}

\* a Parameters object of up to MaxParams parameters in insertion order,
\* and the new_values of a call of update_values
InitParams ==
    /\ p_pc = "call"
    /\ \E m \in 0..MaxParams :
          p_params \in [1..m -> UNION {ParameterChoices(k) : k \in 1..m}]
    /\ \A k \in 1..Len(p_params) : p_params[k] \in ParameterChoices(k)
    /\ p_new \in SeqsUpTo({Some(7), Some(8)}, MaxParams)
    /\ p_before = p_params
    /\ ScannerIdle
    /\ WorkerIdle
    /\ prev_results = NoPrevious
    /\ arrived = 0
    /\ FilterIdle
    /\ NearestIdle
    /\ FluxIdle

\* update_values(new_values) returns or raises IndexError
UpdateValues ==
    /\ p_pc = "call"
    /\ \E res \in {update_values(p_params, p_new)} :
          /\ p_params' = res.params
          /\ p_pc' = IF res.raised THEN "raised" ELSE "returned"
    /\ UNCHANGED <<p_new, p_before>>
    /\ UNCHANGED <<prev_results, arrived, workerVars, scannerVars>>
    /\ UNCHANGED <<filterVars, nearestVars, fluxVars>>

NextParams == UpdateValues

SpecParams == InitParams /\ [][NextParams]_vars

(***************************************************************************)
(* Properties of Parameters.update_values (SpecParams)                     *)
(***************************************************************************)
\* the positions of the varying parameters before the call, in insertion
\* order
VaryingPositions ==
    SelectSeq([k \in 1..Len(p_before) |-> k], LAMBDA k : p_before[k].vary)

\* a parameter without its value
OtherAttributes(par) == [par EXCEPT !.value = 0]

\* C30: update_values(new_values) assigns new_values[k] to the k-th
\* varying parameter in insertion order and leaves the value of every
\* fixed parameter and every other attribute of all parameters unchanged;
\* afterwards fittedvalueslist() is the first n entries of new_values, n
\* the number of varying parameters, and bounds() lists the low and high
\* bounds in that same order.
C30_UpdateValuesInOrder ==
    /\ p_pc = "raised" => Len(p_new) < Len(VaryingPositions)
    /\ p_pc = "returned" =>
          /\ Len(p_new) >= Len(VaryingPositions)
          /\ Len(p_params) = Len(p_before)
          /\ \A j \in 1..Len(VaryingPositions) :
                p_params[VaryingPositions[j]].value = p_new[j][1]
          /\ \A k \in 1..Len(p_before) :
                /\ ~p_before[k].vary => p_params[k] = p_before[k]
                /\ OtherAttributes(p_params[k]) = OtherAttributes(p_before[k])
          /\ fittedvalueslist(p_params) =
                [j \in 1..Len(VaryingPositions) |-> p_new[j][1]]
          /\ bounds(p_params) =
                << [j \in 1..Len(VaryingPositions) |->
                       p_before[VaryingPositions[j]].lo_bound],
                   [j \in 1..Len(VaryingPositions) |->
                       p_before[VaryingPositions[j]].hi_bound] >>

\* a fixed parameter stands before two varying ones that got different
\* values, and new_values had an entry to spare
C30_Witness ==
    /\ p_pc = "returned"
    /\ Len(p_params) = 3
    /\ ~p_params[1].vary
    /\ p_params[1].value = 1
    /\ p_params[2].vary
    /\ p_params[3].vary
    /\ p_params[2].value = 7
    /\ p_params[3].value = 8
    /\ p_params[2].lo_bound # p_params[3].lo_bound
    /\ Len(p_new) = 3

====
